---- MODULE Spec2Model ----
(***************************************************************************)
(* Model of server/services/youtube_service_fixed.py (the yt-dlp /        *)
(* transcript-API YouTubeService) and of youtube_service (copy).py (the   *)
(* older pytube YouTubeService).                                          *)
(*                                                                         *)
(* One call of process_youtube_url is one behaviour.  Every external call *)
(* (yt-dlp, youtube_transcript_api, requests, whisper, the filesystem) is *)
(* an input drawn from a small set of outcomes; the Python code between   *)
(* the external calls is translated into operators.                       *)
(***************************************************************************)
EXTENDS Integers, Sequences, FiniteSets, TLC

(***************************************************************************)
(* Python values.  A str is a sequence of tokens, a token being a piece   *)
(* of text (its label o) with its number of characters (w).  None is a    *)
(* value of its own.  A dict is a record; a missing key is a missing      *)
(* field.                                                                  *)
(***************************************************************************)
None == [none |-> TRUE]

Lit(o, w) == [o |-> o, w |-> w]

RECURSIVE SumLen(_)
SumLen(p) == IF p = <<>> THEN 0 ELSE Head(p).w + SumLen(Tail(p))

Str(p) == [parts |-> p, len |-> SumLen(p)]

\* `if x:` / `not x` for an Optional[str]
Truthy(x) == x # None /\ x.len > 0

\* d.get(k, default)
Get(d, k, default) == IF k \in DOMAIN d THEN d[k] ELSE default

\* "{x}" inside an f-string
Fmt(x) == IF x = None THEN Str(<<Lit("None", 4)>>) ELSE x

SP == Lit(" ", 1)
NL == Lit("\\n", 1)

RECURSIVE JoinParts(_, _)
JoinParts(sep, strs) ==
    IF strs = <<>> THEN <<>>
    ELSE IF Len(strs) = 1 THEN Head(strs).parts
    ELSE Head(strs).parts \o <<sep>> \o JoinParts(sep, Tail(strs))

\* ' '.join(strs)
JoinSpace(strs) == Str(JoinParts(SP, strs))

(***************************************************************************)
(* Outcome of a call: a returned value, or an exception leaving the call. *)
(***************************************************************************)
Ret(v) == [raised |-> FALSE, exc |-> "", value |-> v]
Raise(e) == [raised |-> TRUE, exc |-> e, value |-> None]

(***************************************************************************)
(* Thresholds of the code.                                                 *)
(***************************************************************************)
MinTranscriptLen == 500
MinAudioTranscriptLen == 100
MinCaptionLen == 100
MinYtDlpDescriptionLen == 100
MinMirrorDescriptionLen == 200
CaptionFetchAttempts == 3

(***************************************************************************)
(* Strings of the run.                                                     *)
(***************************************************************************)
Unknown == Str(<<Lit("Unknown", 7)>>)
EmptyStr == Str(<<>>)

\* a short URL with a parameter, a watch URL without v=, a short URL without id
Urls ==
    { Str(<<Lit("https://", 8), Lit("youtu.be/", 9), Lit("dQw4w9WgXcQ", 11),
            Lit("?", 1), Lit("t=42", 4)>>),
      Str(<<Lit("https://", 8), Lit("www.", 4), Lit("youtube.com/", 12),
            Lit("watch", 5), Lit("?", 1), Lit("list=PL1", 8)>>),
      Str(<<Lit("https://", 8), Lit("youtu.be/", 9)>>) }

\* and a /user/ URL, which the fourth pattern of the pytube version matches
PytubeUrls ==
    Urls \cup
    { Str(<<Lit("https://", 8), Lit("www.", 4), Lit("youtube.com/", 12), Lit("user/", 5),
            Lit("chan", 4), Lit("/", 1), Lit("u", 1), Lit("/", 1), Lit("0", 1)>>) }

BackendId == Str(<<Lit("M7lc1UVf-VE", 11)>>)
TitleA == Str(<<Lit("Launch", 6), SP, Lit("Day", 3)>>)
AuthorA == Str(<<Lit("SpaceChannel", 12)>>)

(***************************************************************************)
(* str.split and `in`, on tokens.                                          *)
(***************************************************************************)
HasSub(p, q) ==
    \E i \in 1..(Len(p) - Len(q) + 1) : SubSeq(p, i, i + Len(q) - 1) = q

FirstAt(p, q) ==
    IF HasSub(p, q)
    THEN CHOOSE i \in 1..(Len(p) - Len(q) + 1) :
            /\ SubSeq(p, i, i + Len(q) - 1) = q
            /\ \A j \in 1..(i - 1) : SubSeq(p, j, j + Len(q) - 1) # q
    ELSE 0

\* s.split(q)[0]
SplitFirst(p, q) ==
    IF HasSub(p, q) THEN SubSeq(p, 1, FirstAt(p, q) - 1) ELSE p

\* s.split(q)[1], for q in s
SplitSecond(p, q) ==
    SplitFirst(SubSeq(p, FirstAt(p, q) + Len(q), Len(p)), q)

(***************************************************************************)
(* The video-extraction backend (yt_dlp.YoutubeDL.extract_info): it       *)
(* raises, returns nothing, or returns an info dict.                       *)
(***************************************************************************)
BackendRaises == [kind |-> "raise"]
BackendNoInfo == [kind |-> "none"]
BackendInfo(i) == [kind |-> "info", info |-> i]

FlatInfos ==
    { [title |-> TitleA, uploader |-> AuthorA, id |-> BackendId],
      [title |-> TitleA, id |-> EmptyStr] }

IdBackendOutcomes ==
    {BackendRaises, BackendNoInfo,
     BackendInfo([id |-> BackendId]), BackendInfo([title |-> TitleA])}

(***************************************************************************)
(* extract_video_id (youtube_service_fixed.py).                            *)
(***************************************************************************)
YoutubeCom == Lit("youtube.com/", 12)

\* .split('?')[0].split('&')[0]
StripParams(seg) == SplitFirst(SplitFirst(seg, <<Lit("?", 1)>>), <<Lit("&", 1)>>)

\* the URL patterns: TRUE when one of them returns an id
UrlPatternReturns(u) ==
    \/ HasSub(u, <<Lit("youtu.be/", 9)>>)
    \/ /\ HasSub(u, <<YoutubeCom, Lit("watch", 5)>>)
       /\ HasSub(u, <<Lit("v=", 2)>>)
    \/ /\ ~HasSub(u, <<YoutubeCom, Lit("watch", 5)>>)
       /\ \/ HasSub(u, <<YoutubeCom, Lit("embed/", 6)>>)
          \/ HasSub(u, <<YoutubeCom, Lit("v/", 2)>>)

UrlPatternId(u) ==
    IF HasSub(u, <<Lit("youtu.be/", 9)>>)
    THEN Str(StripParams(SplitSecond(u, <<Lit("youtu.be/", 9)>>)))
    ELSE IF HasSub(u, <<YoutubeCom, Lit("watch", 5)>>)
    THEN Str(SplitFirst(SplitSecond(u, <<Lit("v=", 2)>>), <<Lit("&", 1)>>))
    ELSE IF HasSub(u, <<YoutubeCom, Lit("embed/", 6)>>)
    THEN Str(StripParams(SplitSecond(u, <<Lit("embed/", 6)>>)))
    ELSE Str(StripParams(SplitSecond(u, <<Lit("v/", 2)>>)))

\* the yt-dlp fallback, lines 768-784: its own try/except, then return None
IdFallback(backend) ==
    LET body ==
            IF backend.kind = "raise" THEN Raise("DownloadError")
            ELSE IF backend.kind = "info" /\ "id" \in DOMAIN backend.info
            THEN Ret(backend.info.id)
            ELSE Ret(None)
    IN  IF body.raised THEN Ret(None) ELSE body

extract_video_id(youtube_url, backend) ==
    LET u == youtube_url.parts
        body == IF UrlPatternReturns(u) THEN Ret(UrlPatternId(u)) ELSE IdFallback(backend)
    IN  IF body.raised THEN Ret(None) ELSE body

(***************************************************************************)
(* The metadata step of process_youtube_url, lines 799-836.                *)
(***************************************************************************)
MetadataFromInfo(info, video_url) ==
    [title |-> Get(info, "title", Unknown),
     author |-> Get(info, "uploader", Unknown),
     length_seconds |-> Get(info, "duration", 0),
     views |-> Get(info, "view_count", 0),
     publish_date |-> Get(info, "upload_date", None),
     video_id |-> Get(info, "id", None),
     thumbnail_url |-> Get(info, "thumbnail", None),
     source_url |-> video_url]

\* faulty variant: the except branch leaves out source_url
FetchedMetadataNoUrl(video_url, o) ==
    IF o.kind = "raise" THEN [title |-> Unknown]
    ELSE IF o.kind = "info" THEN MetadataFromInfo(o.info, video_url)
    ELSE None

\* metadata = None; try: ... if info: metadata = {...}  except: metadata = {default}
FetchedMetadata(video_url, o) ==
    IF o.kind = "raise" THEN [title |-> Unknown, source_url |-> video_url]
    ELSE IF o.kind = "info" THEN MetadataFromInfo(o.info, video_url)
    ELSE None

(***************************************************************************)
(* The transcript-listing backend (YouTubeTranscriptApi).  A preference   *)
(* level either fails at the lookup, fails at fetch, or yields entries.   *)
(***************************************************************************)
EntryLists(src) ==
    { <<>>,
      <<Str(<<Lit(src, 50)>>)>>,
      <<Str(<<Lit(src, 250)>>), Str(<<Lit(src, 249)>>)>>,
      <<Str(<<Lit(src, 300)>>), Str(<<Lit(src, 299)>>)>> }

LevelOutcomes == {"NoTranscriptFound", "FetchError", "ok"}

\* entries[k] is what the track found at level k gives when fetched, language
\* the language code of the first track of the list.  The levels behind the
\* first one that succeeds are not looked at: they are "ok"
ApiEnvs(src) ==
    { [list |-> l, l1 |-> "ok", l2 |-> "ok", l3 |-> "ok", l4 |-> "ok", language |-> "en",
       entries |-> [k \in 1..4 |-> <<>>]] :
          l \in {"TranscriptsDisabled", "ConnectionError"} }
    \cup
    { e \in [list : {"ok"}, l1 : LevelOutcomes, l2 : LevelOutcomes, l3 : LevelOutcomes,
             l4 : {"IndexError", "FetchError", "ok"}, language : {"en"},
             entries : {[k \in 1..4 |-> l] : l \in EntryLists(src)}] :
          /\ e.l1 = "ok" => e.l2 = "ok"
          /\ (e.l1 = "ok" \/ e.l2 = "ok") => e.l3 = "ok"
          /\ (e.l1 = "ok" \/ e.l2 = "ok" \/ e.l3 = "ok") => e.l4 = "ok"
          /\ ~(e.l1 = "ok" \/ e.l2 = "ok" \/ e.l3 = "ok" \/ e.l4 = "ok")
                => e.entries[1] = <<>> }

\* a lower-level call of the strategy failed
ApiFailed(env) == env.list # "ok" \/ env.l1 # "ok"

\* transcript = find...; full_transcript = transcript.fetch(); return ' '.join(text_parts)
LevelText(o, entries) ==
    IF o = "ok" THEN Ret(JoinSpace(entries)) ELSE Raise(o)

\* transcript.translate('en'): the entries of the track, in English
Translated(entries) ==
    [k \in DOMAIN entries |->
        Str([i \in DOMAIN entries[k].parts |->
                [o |-> entries[k].parts[i].o, w |-> entries[k].parts[i].w, language |-> "en"]])]

\* faulty variant: the first track of the list is never translated
LastResortUntranslated(env) ==
    IF env.l4 = "IndexError" THEN Raise("IndexError")
    ELSE LevelText(env.l4, env.entries[4])

\* transcript = list(transcript_list)[0]
\* if transcript.language_code != 'en': transcript = transcript.translate('en')
LastResortText(env) ==
    IF env.l4 = "IndexError" THEN Raise("IndexError")
    ELSE LevelText(env.l4, IF env.language # "en" THEN Translated(env.entries[4])
                           ELSE env.entries[4])

(***************************************************************************)
(* get_transcript_with_youtube_transcript_api, lines 93-159.               *)
(***************************************************************************)
TranscriptApiBody(env) ==
    IF env.list # "ok" THEN Raise(env.list)
    ELSE LET r1 == LevelText(env.l1, env.entries[1]) IN
         IF ~r1.raised THEN r1
         ELSE IF r1.exc # "NoTranscriptFound" THEN r1
         ELSE LET r2 == LevelText(env.l2, env.entries[2]) IN
              IF ~r2.raised THEN r2
              ELSE LET r3 == LevelText(env.l3, env.entries[3]) IN
                   IF ~r3.raised THEN r3
                   ELSE LET r4 == LastResortText(env) IN
                        IF ~r4.raised THEN r4 ELSE Ret(None)

\* faulty variant: without the outer handler of lines 157-159
TranscriptApiUnhandled(env) == TranscriptApiBody(env)

get_transcript_with_youtube_transcript_api(env) ==
    LET body == TranscriptApiBody(env)
    IN  IF body.raised THEN Ret(None) ELSE body

(***************************************************************************)
(* load_proxies, get_random_proxy, get_transcript_from_proxy_service,      *)
(* lines 59-91 and 161-216.                                                *)
(***************************************************************************)
load_proxies == <<"proxy1.example.com:8080", "proxy2.example.com:8080">>

\* the values random.choice may return; {None} when the list is empty
get_random_proxy(proxies) ==
    IF proxies = <<>> THEN {"None"} ELSE {proxies[i] : i \in DOMAIN proxies}

ProxyServiceBody(env) ==
    IF env.list # "ok" THEN Raise(env.list)
    ELSE LET r1 == LevelText(env.l1, env.entries[1]) IN
         IF ~r1.raised THEN r1
         ELSE LET r2 == LevelText(env.l2, env.entries[2]) IN
              IF ~r2.raised THEN r2
              ELSE LET r4 == LastResortText(env) IN
                   IF ~r4.raised THEN r4 ELSE Ret(None)

get_transcript_from_proxy_service(env) ==
    LET body == ProxyServiceBody(env)
    IN  IF body.raised THEN Ret(None) ELSE body

(***************************************************************************)
(* Caption markup.  A caption file is a sequence of lines (content split  *)
(* at '\n'), a line a sequence of tokens.  The regular expressions of the *)
(* parsers look at the first token of the stripped line.                   *)
(***************************************************************************)
Arrow == Lit("-->", 3)
WebVttHeader == Lit("WEBVTT", 6)
CueLine == <<Lit("00:00:01.000", 12), SP, Arrow, SP, Lit("00:00:01.000", 12)>>

IsSpaceTok(t) == t.o \in {" ", "\\n", "\\t"}

\* re.match(r'^\d{2}:\d{2}', line); r'^\d{2}:\d{2}:\d{2}' matches a subset of it
StartsWithMMSS(line) == line # <<>> /\ Head(line).o \in {"00:00:01.000", "12:30"}

\* re.match(r'^-->$', line)
IsArrowLine(line) == line = <<Arrow>>

RECURSIVE LStrip(_)
LStrip(l) == IF l # <<>> /\ IsSpaceTok(Head(l)) THEN LStrip(Tail(l)) ELSE l

RECURSIVE RStrip(_)
RStrip(l) ==
    IF l # <<>> /\ IsSpaceTok(l[Len(l)]) THEN RStrip(SubSeq(l, 1, Len(l) - 1)) ELSE l

\* line and not line.startswith('WEBVTT') and not re.match(...)
VttKeeps(line) ==
    /\ line # <<>>
    /\ Head(line).o # "WEBVTT"
    /\ ~StartsWithMMSS(line)
    /\ ~IsArrowLine(line)

\* line and not re.match(r'^\d+$', line) and not re.match(...)
SrtKeeps(line) ==
    /\ line # <<>>
    /\ ~(Len(line) = 1 /\ line[1].o \in {"1", "2", "2024"})
    /\ ~StartsWithMMSS(line)
    /\ ~IsArrowLine(line)

\* line = line.strip(), for every line
RECURSIVE StrippedLines(_)
StrippedLines(content) ==
    IF content = <<>> THEN <<>>
    ELSE <<[parts |-> RStrip(LStrip(Head(content)))]>> \o StrippedLines(Tail(content))

\* faulty variant: the header is the first line, whatever it holds
ParseVttHeaderFirst(content) ==
    JoinSpace(SelectSeq(StrippedLines(IF content = <<>> THEN <<>> ELSE Tail(content)),
                        LAMBDA l : /\ l.parts # <<>>
                                   /\ ~StartsWithMMSS(l.parts)
                                   /\ ~IsArrowLine(l.parts)))

\* the WebVTT rule, lines 453-461
ParseVtt(content) ==
    JoinSpace(SelectSeq(StrippedLines(content), LAMBDA l : VttKeeps(l.parts)))

\* the SRT rule, lines 462-470
ParseSrt(content) ==
    JoinSpace(SelectSeq(StrippedLines(content), LAMBDA l : SrtKeeps(l.parts)))

RECURSIVE Collapse(_)
Collapse(p) ==
    IF p = <<>> THEN <<>>
    ELSE IF IsSpaceTok(Head(p))
    THEN <<SP>> \o Collapse(LStrip(Tail(p)))
    ELSE <<Head(p)>> \o Collapse(Tail(p))

RECURSIVE RawLines(_)
RawLines(content) ==
    IF content = <<>> THEN <<>>
    ELSE <<[parts |-> Head(content)]>> \o RawLines(Tail(content))

\* the format is chosen by the file extension / the caption URL; the generic
\* rule is re.sub(r'\s+', ' ', content), line 473
ParseCaptions(fmt, content) ==
    IF fmt = "vtt" THEN ParseVtt(content)
    ELSE IF fmt = "srt" THEN ParseSrt(content)
    ELSE Str(Collapse(JoinParts(NL, RawLines(content))))

\* faulty variant: the SRT rule of STEP 2 without the index lines
MirrorParseIndexKept(step, fmt, content) ==
    IF step = 2 /\ fmt = "srt"
    THEN JoinSpace(SelectSeq(StrippedLines(content),
                             LAMBDA l : /\ l.parts # <<>>
                                        /\ ~StartsWithMMSS(l.parts)
                                        /\ ~IsArrowLine(l.parts)))
    ELSE ParseCaptions(fmt, content)

\* the rules as the mirror strategy has them, for the answer of a caption URL
\* of STEP 1 (lines 585-620) and of STEP 2 (lines 665-700); the format is read
\* off the caption URL
MirrorParse(step, fmt, content) ==
    IF step = 1
    THEN IF fmt = "vtt"
         THEN JoinSpace(SelectSeq(StrippedLines(content),
                                  LAMBDA l : /\ l.parts # <<>>
                                             /\ Head(l.parts).o # "WEBVTT"
                                             /\ ~StartsWithMMSS(l.parts)
                                             /\ ~IsArrowLine(l.parts)))
         ELSE IF fmt = "srt"
         THEN JoinSpace(SelectSeq(StrippedLines(content),
                                  LAMBDA l : /\ l.parts # <<>>
                                             /\ ~(Len(l.parts) = 1
                                                   /\ l.parts[1].o \in {"1", "2", "2024"})
                                             /\ ~StartsWithMMSS(l.parts)
                                             /\ ~IsArrowLine(l.parts)))
         ELSE Str(Collapse(JoinParts(NL, RawLines(content))))
    ELSE IF fmt = "vtt"
         THEN JoinSpace(SelectSeq(StrippedLines(content),
                                  LAMBDA l : /\ l.parts # <<>>
                                             /\ Head(l.parts).o # "WEBVTT"
                                             /\ ~StartsWithMMSS(l.parts)
                                             /\ ~IsArrowLine(l.parts)))
         ELSE IF fmt = "srt"
         THEN JoinSpace(SelectSeq(StrippedLines(content),
                                  LAMBDA l : /\ l.parts # <<>>
                                             /\ ~(Len(l.parts) = 1
                                                   /\ l.parts[1].o \in {"1", "2", "2024"})
                                             /\ ~StartsWithMMSS(l.parts)
                                             /\ ~IsArrowLine(l.parts)))
         ELSE Str(Collapse(JoinParts(NL, RawLines(content))))

\* content.split('\n'), on a text
RECURSIVE SplitLines(_)
SplitLines(p) ==
    IF HasSub(p, <<NL>>)
    THEN <<SplitFirst(p, <<NL>>)>> \o SplitLines(SubSeq(p, FirstAt(p, <<NL>>) + 1, Len(p)))
    ELSE <<p>>

\* caption files: two cues of a and b characters of text
TwoCues(src, a, b) ==
    << <<WebVttHeader>>, <<>>,
       <<Lit("1", 1)>>, CueLine, <<SP, Lit(src, a), SP>>, <<>>,
       <<Lit("2", 1)>>, CueLine, <<Lit(src, b)>> >>

HeaderOnly == << <<WebVttHeader>>, <<>> >>

(***************************************************************************)
(* Temporary audio files, download_audio_from_youtube (lines 218-271) and *)
(* transcribe_audio (lines 273-342).                                       *)
(***************************************************************************)
AudioMp3 == "audio-<id>.mp3"

\* ydl.download: "ok" leaves the mp3; "raise_partial" raises after it wrote a
\* part of the download; "raise" raises before it wrote; "missing" returns
\* without the mp3.  The path "" stands for None.
download_audio_from_youtube(dl, fs) ==
    LET written == IF dl = "ok" THEN fs \cup {AudioMp3}
                   ELSE IF dl = "raise_partial" THEN fs \cup {"audio-<id>.part"}
                   ELSE fs
        body == IF dl \in {"raise", "raise_partial"} THEN Raise("DownloadError")
                ELSE IF AudioMp3 \in written THEN Ret(AudioMp3)
                ELSE Ret("")
    IN  [out |-> IF body.raised THEN Ret("") ELSE body, files |-> written]

\* the speech-to-text backends: whisper ("text", "notext", "RuntimeError",
\* "ImportError"), and the OpenAI API when the whisper package is missing
\* ("text", "notext", "nokey", "APIError")
Transcriptions ==
    { Str(<<Lit("whisper", 100)>>), Str(<<Lit("whisper", 101)>>), Str(<<Lit("whisper", 501)>>) }

TranscribeEnvs ==
    [whisper : {"text"}, openai : {"text"}, text : Transcriptions]
    \cup [whisper : {"ImportError"}, openai : {"text"}, text : Transcriptions]
    \cup [whisper : {"notext", "RuntimeError"}, openai : {"text"},
          text : {Str(<<Lit("whisper", 100)>>)}]
    \cup [whisper : {"ImportError"}, openai : {"notext", "nokey", "APIError"},
          text : {Str(<<Lit("whisper", 100)>>)}]

TranscribeFailed(tr) ==
    \/ tr.whisper = "RuntimeError"
    \/ tr.whisper = "ImportError" /\ tr.openai \in {"nokey", "APIError"}

TranscribeBody(tr) ==
    IF tr.whisper = "text" THEN Ret(tr.text)
    ELSE IF tr.whisper = "notext" THEN Ret(None)
    ELSE IF tr.whisper = "RuntimeError" THEN Raise("RuntimeError")
    ELSE LET api == IF tr.openai = "nokey" THEN Ret(None)
                    ELSE IF tr.openai = "text" THEN Ret(tr.text)
                    ELSE IF tr.openai = "notext" THEN Ret(None)
                    ELSE Raise("APIError")
         IN  IF api.raised THEN Ret(None) ELSE api

\* try: ... except Exception: return None  finally: os.remove(audio_path)
transcribe_audio(audio_path, tr, fs) ==
    LET body == TranscribeBody(tr)
    IN  [out |-> IF body.raised THEN Ret(None) ELSE body,
         files |-> fs \ {audio_path}]

(***************************************************************************)
(* get_full_transcript_with_enhanced_yt_dlp, lines 344-512.                *)
(***************************************************************************)
SubExts == <<"vtt", "srt", "ttml", "srv1", "srv2", "srv3">>
SubLangs == <<"en", "en-US", "en-GB", "en-CA", "en-AU">>

\* for ext in [...]: for lang in [...]: potential_file = f"{subtitle_path}.{lang}.{ext}"
\*     if os.path.exists(potential_file): potential_subtitle_files.append(...)
potential_subtitle_files(existing) ==
    SelectSeq([k \in 1..(Len(SubExts) * Len(SubLangs)) |->
                  [lang |-> SubLangs[((k - 1) % Len(SubLangs)) + 1],
                   ext |-> SubExts[((k - 1) \div Len(SubLangs)) + 1]]],
              LAMBDA n : n \in existing)

RECURSIVE FirstSubtitleLang(_, _)
FirstSubtitleLang(langs, subtitles) ==
    IF langs = <<>> THEN ""
    ELSE IF Head(langs) \in subtitles THEN Head(langs)
    ELSE FirstSubtitleLang(Tail(langs), subtitles)

\* f"Title: {title}\n\nDescription: {description}"
TitleDescription(title, description) ==
    Str(<<Lit("Title:", 6), SP>> \o Fmt(title).parts
        \o <<NL, NL, Lit("Description:", 12), SP>> \o Fmt(description).parts)

\* f"Title: {title}\nAuthor: {author}\n\nUnable to extract content from this YouTube video."
UnableToExtract(title, author) ==
    Str(<<Lit("Title:", 6), SP>> \o Fmt(title).parts
        \o <<NL, Lit("Author:", 7), SP>> \o Fmt(author).parts
        \o <<NL, NL, Lit("Unable to extract content", 25),
             Lit(" from this YouTube video.", 25)>>)

\* faulty variant: nothing is returned when no subtitle was found
NoAudioNoFallback(info, metadata, env, fs) == [out |-> Ret(None), files |-> fs, steps |-> <<>>]

\* faulty variant: the stub without the audio phase
FallbackBeforeAudio(info, metadata, env, fs) ==
    [out |-> Ret(UnableToExtract(Get(metadata, "title", Unknown),
                                 Get(metadata, "author", Unknown))),
     files |-> fs, steps |-> <<"stub">>]

\* STEP 3 and STEP 4, lines 483-508.  steps names, in order, the steps of the
\* strategy that ran
AudioAndFallback(info, metadata, env, fs) ==
    LET dl == download_audio_from_youtube(env.dl, fs)
        audio_path == dl.out.value
        tr == IF audio_path # "" /\ audio_path \in dl.files
              THEN transcribe_audio(audio_path, env.tr, dl.files)
              ELSE [out |-> Ret(None), files |-> dl.files]
        transcript == tr.out.value
        title == IF info # None THEN Get(info, "title", EmptyStr)
                 ELSE Get(metadata, "title", EmptyStr)
        description == IF info # None THEN Get(info, "description", EmptyStr)
                       ELSE EmptyStr
        audio == IF audio_path # "" /\ audio_path \in dl.files
                 THEN <<"download_audio", "transcribe_audio">>
                 ELSE <<"download_audio">>
    IN  IF Truthy(transcript) /\ transcript.len > MinAudioTranscriptLen
        THEN [out |-> Ret(transcript), files |-> tr.files, steps |-> audio]
        ELSE IF /\ Truthy(title)
                /\ Truthy(description)
                /\ description.len > MinYtDlpDescriptionLen
        THEN [out |-> Ret(TitleDescription(title, description)), files |-> tr.files,
              steps |-> Append(audio, "description")]
        ELSE [out |-> Ret(UnableToExtract(Get(metadata, "title", Unknown),
                                          Get(metadata, "author", Unknown))),
              files |-> tr.files, steps |-> Append(audio, "stub")]

YtDlpBody(video_url, env, fs) ==
    LET info == IF env.info.kind = "info" THEN env.info.info ELSE None
        metadata == IF info # None THEN MetadataFromInfo(info, video_url)
                    ELSE [title |-> Unknown, author |-> Unknown, source_url |-> video_url]
        mid == Get(metadata, "video_id", None)
        vid == IF Truthy(mid) THEN mid ELSE extract_video_id(video_url, env.idb).value
        potential == potential_subtitle_files(env.subfiles)
        subtitles == IF info # None THEN Get(info, "subtitles", {}) ELSE {}
        lang == FirstSubtitleLang(SubLangs, subtitles)
        \* subtitle_file = potential_subtitle_files[0]
        subtitle_file == IF Truthy(vid) /\ potential # <<>> THEN potential[1] ELSE None
    IN  IF ~Truthy(vid) THEN [out |-> Ret(None), files |-> fs, steps |-> <<>>]
        ELSE IF potential # <<>>
        THEN IF env.read # "ok"
             THEN [out |-> Raise(env.read), files |-> fs, subtitle_file |-> subtitle_file,
                   steps |-> <<"subtitle_file">>]
             ELSE [out |-> Ret(ParseCaptions(subtitle_file.ext, env.content)), files |-> fs,
                   subtitle_file |-> subtitle_file, steps |-> <<"subtitle_file">>]
        ELSE IF lang # ""
        THEN \* f"Transcript from subtitles: {info['subtitles'][lang]}": the repr of
             \* a list of track descriptors
             [out |-> Ret(Str(<<Lit("Transcript from subtitles:", 26), SP,
                                Lit("[{'ext': 'vtt', 'url': ...}]", 640), Lit(lang, 2)>>)),
              files |-> fs, steps |-> <<"info_subtitles">>]
        ELSE AudioAndFallback(info, metadata, env, fs)

get_full_transcript_with_enhanced_yt_dlp(video_url, env, fs) ==
    LET body == YtDlpBody(video_url, env, fs)
    IN  IF body.out.raised THEN [body EXCEPT !.out = Ret(None)] ELSE body

(***************************************************************************)
(* Inputs of the yt-dlp strategy.                                          *)
(***************************************************************************)
Description(n) == Str(<<Lit("description", n)>>)

FullInfos ==
    { [title |-> TitleA, uploader |-> AuthorA, id |-> BackendId, description |-> Description(201)],
      [title |-> TitleA, uploader |-> AuthorA, id |-> BackendId, description |-> Description(101)],
      [title |-> TitleA, uploader |-> AuthorA, id |-> BackendId, description |-> Description(100)],
      [title |-> TitleA, uploader |-> AuthorA, id |-> BackendId, subtitles |-> {"en-GB", "fr"}],
      [title |-> TitleA, uploader |-> AuthorA, id |-> BackendId, subtitles |-> {"fr"}] }

SubtitleFileSets ==
    { {[lang |-> "en", ext |-> "srt"], [lang |-> "en-AU", ext |-> "vtt"]},
      {[lang |-> "en-US", ext |-> "srt"]} }

YtDlpDefaults ==
    [info |-> BackendRaises, idb |-> BackendNoInfo, subfiles |-> {}, read |-> "ok",
     content |-> HeaderOnly, dl |-> "raise",
     tr |-> [whisper |-> "notext", openai |-> "text", text |-> Str(<<Lit("whisper", 100)>>)]]

YtDlpEnvs ==
    { [YtDlpDefaults EXCEPT !.info = i, !.idb = b] :
          i \in { BackendRaises, BackendNoInfo,
                  BackendInfo([title |-> TitleA, uploader |-> AuthorA,
                               description |-> Description(201)]) },
          b \in IdBackendOutcomes }
    \cup
    { [YtDlpDefaults EXCEPT !.info = BackendInfo(i), !.subfiles = f, !.read = "UnicodeDecodeError"] :
          i \in {[title |-> TitleA, id |-> BackendId]}, f \in SubtitleFileSets }
    \cup
    { [YtDlpDefaults EXCEPT !.info = BackendInfo(i), !.subfiles = f, !.content = c] :
          i \in {[title |-> TitleA, id |-> BackendId]}, f \in SubtitleFileSets,
          c \in { HeaderOnly, TwoCues("subtitle", 50, 49), TwoCues("subtitle", 300, 299) } }
    \cup
    { [YtDlpDefaults EXCEPT !.info = BackendInfo(i)] : i \in FullInfos }
    \cup
    { [YtDlpDefaults EXCEPT !.info = BackendInfo(i), !.dl = d] :
          i \in {[title |-> TitleA, uploader |-> AuthorA, id |-> BackendId]},
          d \in {"raise", "raise_partial", "missing"} }
    \cup
    { [YtDlpDefaults EXCEPT !.info = BackendInfo(i), !.dl = "ok", !.tr = t] :
          i \in FullInfos, t \in TranscribeEnvs }

\* a lower-level call of the strategy failed
YtDlpFailed(env) ==
    \/ env.info.kind = "raise"
    \/ env.read # "ok"
    \/ env.dl \in {"raise", "raise_partial", "missing"}
    \/ env.dl = "ok" /\ TranscribeFailed(env.tr)

(***************************************************************************)
(* get_transcript_from_invidious_with_enhanced_options, lines 514-736:    *)
(* the body of one (instance, user agent) pair.  A caption descriptor     *)
(* carries what its caption URL answers to the successive requests.       *)
(***************************************************************************)
CaptionItem(label, lang, url, fmt, fetch, content) ==
    [label |-> label, languageCode |-> lang, url |-> url, fmt |-> fmt,
     fetch |-> fetch, content |-> content]

NumInstances == 2
NumUserAgents == 2
NumPairs == NumInstances * NumUserAgents

\* one entry of the log of a call: a requests.get (ev "captions", "videos" or
\* "caption_url") with what it was answered, or a time.sleep of secs seconds.
\* pair is the position of the (instance, user agent) pair in the iteration,
\* attempt the 1-based number of the request to a caption URL
Event(ev, attempt, answer, secs) ==
    [ev |-> ev, pair |-> 0, attempt |-> attempt, answer |-> answer, secs |-> secs,
     lang |-> <<>>]

\* the events of the k-th pair
Tagged(log, k) == [i \in DOMAIN log |-> [log[i] EXCEPT !.pair = k]]

\* faulty variant: a 200 answer with a short text is requested again
RECURSIVE FetchCaptionRetryShort(_, _, _, _)
FetchCaptionRetryShort(step, item, attempt, failed) ==
    IF attempt > CaptionFetchAttempts
    THEN [text |-> None, requests |-> CaptionFetchAttempts, failed |-> failed, log |-> <<>>]
    ELSE LET answer == IF attempt <= Len(item.fetch) THEN item.fetch[attempt] ELSE "raise"
             parsed == MirrorParse(step, item.fmt, item.content)
         IN  IF answer = "ok" /\ parsed.len > MinCaptionLen
             THEN [text |-> parsed, requests |-> attempt, failed |-> failed,
                   log |-> <<[Event("caption_url", attempt, "ok", 0) EXCEPT
                                     !.lang = item.languageCode]>>]
             ELSE [FetchCaptionRetryShort(step, item, attempt + 1, TRUE) EXCEPT
                      !.log = <<[Event("caption_url", attempt, answer, 0) EXCEPT
                                    !.lang = item.languageCode]>>
                              \o (IF attempt - 1 < 2 THEN <<Event("sleep", attempt, "retry", 2)>>
                                  ELSE <<>>)
                              \o @]

\* for attempt in range(3): the first 200 answer ends the loop; time.sleep(2)
\* after a failed attempt but the last (lines 628-629, 708-709)
RECURSIVE FetchCaption(_, _, _, _)
FetchCaption(step, item, attempt, failed) ==
    IF attempt > CaptionFetchAttempts
    THEN [text |-> None, requests |-> CaptionFetchAttempts, failed |-> failed, log |-> <<>>]
    ELSE LET answer == IF attempt <= Len(item.fetch) THEN item.fetch[attempt] ELSE "raise"
         IN  IF answer = "ok"
             THEN LET parsed == MirrorParse(step, item.fmt, item.content)
                  IN  [text |-> IF parsed.len > MinCaptionLen THEN parsed ELSE None,
                       requests |-> attempt, failed |-> failed,
                       log |-> <<[Event("caption_url", attempt, "ok", 0) EXCEPT
                                     !.lang = item.languageCode]>>]
             ELSE [FetchCaption(step, item, attempt + 1, TRUE) EXCEPT
                      !.log = <<[Event("caption_url", attempt, answer, 0) EXCEPT
                                    !.lang = item.languageCode]>>
                              \o (IF attempt - 1 < 2 THEN <<Event("sleep", attempt, "retry", 2)>>
                                  ELSE <<>>)
                              \o @]

\* for caption_item in captions_to_try: the first accepted parse is returned
RECURSIVE TryCaptions(_, _, _)
TryCaptions(step, items, failed) ==
    IF items = <<>> THEN [text |-> None, failed |-> failed, log |-> <<>>]
    ELSE IF Head(items).url = "none" THEN TryCaptions(step, Tail(items), failed)
    ELSE LET got == FetchCaption(step, Head(items), 1, failed)
         IN  IF got.text # None
             THEN [text |-> got.text, failed |-> got.failed, log |-> got.log]
             ELSE [TryCaptions(step, Tail(items), got.failed) EXCEPT !.log = got.log \o @]

IsEnglish(item) ==
    /\ Len(item.languageCode) >= 2
    /\ SubSeq(item.languageCode, 1, 2) = <<"e", "n">>

\* lines 560-567: English descriptors need a label at the captions endpoint
CaptionsToTryStep1(data) ==
    LET english == SelectSeq(data, LAMBDA c : c.label /\ IsEnglish(c))
    IN  IF english # <<>> THEN english ELSE data

\* lines 646-648
CaptionsToTryStep2(data) ==
    LET english == SelectSeq(data, LAMBDA c : IsEnglish(c))
    IN  IF english # <<>> THEN english ELSE data

\* STEP 1, lines 547-631.  status "raise" is requests.get raising: it leaves the
\* pair's try block
CaptionsStep(cap) ==
    IF cap.status = "raise"
    THEN [out |-> Raise("RequestException"), failed |-> TRUE,
          log |-> <<Event("captions", 0, cap.status, 0)>>]
    ELSE IF cap.status \in {"non200", "badjson"}
    THEN [out |-> Ret(None), failed |-> TRUE, log |-> <<Event("captions", 0, cap.status, 0)>>]
    ELSE LET got == TryCaptions(1, CaptionsToTryStep1(cap.data), FALSE)
         IN  [out |-> Ret(got.text), failed |-> got.failed,
              log |-> <<Event("captions", 0, cap.status, 0)>> \o got.log]

\* faulty variant: the description gate of the other strategy
VideoDetailsStepGate100(vid) ==
    IF vid.status \in {"raise", "non200", "badjson"}
    THEN [out |-> Ret(None), failed |-> TRUE, log |-> <<Event("videos", 0, vid.status, 0)>>]
    ELSE LET got == TryCaptions(2, CaptionsToTryStep2(vid.captions), FALSE)
             log == <<Event("videos", 0, vid.status, 0)>> \o got.log
         IN  IF got.text # None THEN [out |-> Ret(got.text), failed |-> got.failed, log |-> log]
             ELSE IF /\ Truthy(Get(vid, "description", None))
                     /\ vid.description.len > MinYtDlpDescriptionLen
             THEN [out |-> Ret(TitleDescription(Get(vid, "title", Unknown), vid.description)),
                   failed |-> got.failed, log |-> log]
             ELSE [out |-> Ret(None), failed |-> got.failed, log |-> log]

\* STEP 2 and STEP 3, lines 633-720
VideoDetailsStep(vid) ==
    IF vid.status \in {"raise", "non200", "badjson"}
    THEN [out |-> Ret(None), failed |-> TRUE, log |-> <<Event("videos", 0, vid.status, 0)>>]
    ELSE LET got == TryCaptions(2, CaptionsToTryStep2(vid.captions), FALSE)
             log == <<Event("videos", 0, vid.status, 0)>> \o got.log
         IN  IF got.text # None THEN [out |-> Ret(got.text), failed |-> got.failed, log |-> log]
             ELSE IF /\ Truthy(Get(vid, "description", None))
                     /\ vid.description.len > MinMirrorDescriptionLen
             THEN [out |-> Ret(TitleDescription(Get(vid, "title", Unknown), vid.description)),
                   failed |-> got.failed, log |-> log]
             ELSE [out |-> Ret(None), failed |-> got.failed, log |-> log]

\* STEP 2 of a pair, entered when STEP 1 returned nothing
PairAfterCaptions(c, v) ==
    [out |-> v.out, failed |-> c.failed \/ v.failed, log |-> c.log \o v.log]

\* the body of one pair, lines 535-723: an exception of STEP 1's request is
\* caught by the pair's handler, which goes on to the next pair
PairOutcome(c, vid) ==
    IF c.out.raised THEN [out |-> Ret(None), failed |-> TRUE, log |-> c.log]
    ELSE IF c.out.value # None THEN c
    ELSE PairAfterCaptions(c, VideoDetailsStep(vid))

\* for instance in ...: for user_agent in ...: envs[k] is what the k-th pair
\* of the iteration is answered
RECURSIVE InvidiousPairs(_, _, _)
\* a pair that returned nothing is followed by time.sleep(1) (line 726), the
\* last pair of an instance by time.sleep(2) as well (line 729)
AfterPair(p, envs, k, failed) ==
    IF p.out.raised \/ p.out.value # None
    THEN [out |-> p.out, failed |-> failed \/ p.failed, log |-> Tagged(p.log, k)]
    ELSE [InvidiousPairs(envs, k + 1, failed \/ p.failed) EXCEPT
             !.log = Tagged(p.log \o <<Event("sleep", 0, "pair", 1)>>
                                 \o (IF k % NumUserAgents = 0
                                     THEN <<Event("sleep", 0, "instance", 2)>> ELSE <<>>),
                            k)
                     \o @]

InvidiousPairs(envs, k, failed) ==
    IF k > Len(envs) THEN [out |-> Ret(None), failed |-> failed, log |-> <<>>]
    ELSE AfterPair(PairOutcome(CaptionsStep(envs[k].cap), envs[k].vid), envs, k, failed)

\* the outer handler, lines 734-736
InvidiousHandler(body) ==
    IF body.out.raised THEN [out |-> Ret(None), failed |-> TRUE, log |-> body.log] ELSE body

get_transcript_from_invidious_with_enhanced_options(envs) ==
    InvidiousHandler(InvidiousPairs(envs, 1, FALSE))

(***************************************************************************)
(* Inputs of the mirror strategy.                                          *)
(***************************************************************************)
MaxLines == 3

\* a French descriptor whose URL never answers
ItemDown == CaptionItem(FALSE, <<"f", "r">>, "abs", "other", <<"raise", "non200", "raise">>,
                        TwoCues("mirror", 300, 299))

\* what the captions endpoint and the videos endpoint answer
CaptionsOk(d) == [status |-> "ok", data |-> d]
VideoOk(d) == [status |-> "ok", captions |-> d]

\* pairs that yield nothing
FailingPairs ==
    { [cap |-> [status |-> "raise", data |-> <<>>], vid |-> [status |-> "non200", captions |-> <<>>]],
      [cap |-> [status |-> "non200", data |-> <<>>],
       vid |-> [status |-> "raise", captions |-> <<>>]],
      [cap |-> CaptionsOk(<<>>), vid |-> VideoOk(<<>>)] }

\* pairs that may yield text: a long caption; one of 108 characters behind two
\* failed requests; one of 107 characters behind a descriptor that is left out
\* (it is not English); one whose parse has 100 characters; one of 99
\* characters before a long one; an English descriptor without label whose
\* URL answers 404, before a French one; then, behind a malformed captions payload, an
\* unlabelled caption, a descriptor without URL with a description of 200
\* characters, and a description of 201
AnsweringPairs ==
    { [cap |-> CaptionsOk(d), vid |-> [status |-> "non200", captions |-> <<>>]] :
          d \in { <<CaptionItem(TRUE, <<"e", "n">>, "abs", "vtt", <<"ok">>, TwoCues("mirror", 300, 299))>>,
                  <<CaptionItem(TRUE, <<"e", "n", "-", "U", "S">>, "rel", "srt",
                                <<"non200", "raise", "ok">>, TwoCues("mirror", 50, 50))>>,
                  <<ItemDown,
                    CaptionItem(TRUE, <<"e", "n">>, "abs", "srt", <<"ok">>, TwoCues("mirror", 50, 49))>>,
                  <<CaptionItem(TRUE, <<"e", "n">>, "abs", "srt", <<"ok">>, TwoCues("mirror", 46, 46))>>,
                  <<CaptionItem(TRUE, <<"e", "n">>, "rel", "srt", <<"ok">>, TwoCues("mirror", 46, 45)),
                    CaptionItem(TRUE, <<"e", "n">>, "abs", "vtt", <<"raise", "ok">>,
                                TwoCues("mirror", 300, 299))>>,
                  <<CaptionItem(FALSE, <<"e", "n">>, "abs", "vtt", <<"non200", "non200", "non200">>,
                                TwoCues("mirror", 300, 299)),
                    CaptionItem(TRUE, <<"f", "r">>, "abs", "vtt", <<"ok">>,
                                TwoCues("miroir", 300, 299))>> } }
    \cup
    { [cap |-> [status |-> "badjson", data |-> <<>>], vid |-> v] :
          v \in { VideoOk(<<CaptionItem(FALSE, <<"e", "n">>, "abs", "other", <<"ok">>,
                                        TwoCues("mirror", 250, 249))>>),
                  [status |-> "ok",
                   captions |-> <<CaptionItem(TRUE, <<"e", "n">>, "none", "vtt", <<>>, HeaderOnly)>>,
                   description |-> Description(200)],
                  [status |-> "ok", captions |-> <<ItemDown>>, description |-> Description(201),
                   title |-> TitleA] } }

\* every pair fails alike, but for the first or the last one
MirrorEnvs ==
    { [k \in 1..NumPairs |-> IF k = j THEN e ELSE f] :
          f \in FailingPairs, e \in FailingPairs \cup AnsweringPairs, j \in {1, NumPairs} }

(***************************************************************************)
(* youtube_service (copy).py, the pytube version.  Its backend object     *)
(* (pytube.YouTube) raises at construction or at an attribute read.       *)
(***************************************************************************)
RetryCount == 3
MaxSummaryLength == 5000
PytubeInstances == 4

PytubeVideo ==
    [title |-> TitleA, author |-> AuthorA, length |-> 212, views |-> 1000,
     publish_date |-> [date |-> "2009-10-25"], video_id |-> BackendId,
     thumbnail_url |-> Str(<<Lit("https://i.ytimg.com/vi/", 23), Lit("M7lc1UVf-VE", 11)>>)]

\* the dict built at lines 209-218; publish_date is
\* str(yt.publish_date) if yt.publish_date else None
PytubeMetadata(yt, video_url) ==
    [title |-> yt.title,
     author |-> yt.author,
     length_seconds |-> yt.length,
     views |-> yt.views,
     publish_date |-> IF yt.publish_date = None THEN None
                      ELSE Str(<<Lit(yt.publish_date.date, 10), SP, Lit("00:00:00", 8)>>),
     video_id |-> yt.video_id,
     thumbnail_url |-> yt.thumbnail_url,
     source_url |-> video_url]

\* for attempt in range(retry_count): the first attempt that reads every
\* attribute replaces the default record
RECURSIVE MetadataRetry(_, _, _, _)
MetadataRetry(attempts, yt, video_url, metadata) ==
    IF attempts = <<>> THEN metadata
    ELSE IF Head(attempts) = "ok" THEN PytubeMetadata(yt, video_url)
    ELSE MetadataRetry(Tail(attempts), yt, video_url, metadata)

get_video_metadata(video_url, env) ==
    LET body == IF env.ctor = "raise" THEN Raise("RegexMatchError")
                ELSE Ret(MetadataRetry(env.reads, env.yt, video_url,
                                       [title |-> Unknown, source_url |-> video_url]))
    IN  IF body.raised
        THEN Ret([title |-> Unknown, source_url |-> video_url, error |-> Str(<<Lit(body.exc, 20)>>)])
        ELSE body

PytubeMetadataEnvs ==
    { [ctor |-> "raise", reads |-> [k \in 1..RetryCount |-> "ok"], yt |-> PytubeVideo] }
    \cup
    { [ctor |-> "ok", reads |-> r, yt |-> y] :
          r \in { [k \in 1..RetryCount |-> IF k <= j THEN "raise" ELSE "ok"] :
                      j \in 0..RetryCount },
          y \in {PytubeVideo, [PytubeVideo EXCEPT !.publish_date = None]} }

(***************************************************************************)
(* extract_video_id of the pytube version, lines 236-271.                  *)
(***************************************************************************)
IsDelimiter(t) == t.o \in {"?", "&", "/"}

\* re.search(marker + r'([^&\?\/]+)'): the segment behind the marker
SegmentAfter(u, marker) ==
    LET i == FirstAt(u, marker) + Len(marker)
    IN  IF HasSub(u, marker) /\ i <= Len(u) /\ ~IsDelimiter(u[i]) THEN <<u[i]>> ELSE <<>>

\* r'(?:youtube\.com\/user\/\w+\/\w+\/[^&\?\/]+)'
UserPatternMatches(u) ==
    LET marker == <<YoutubeCom, Lit("user/", 5)>>
        i == FirstAt(u, marker) + Len(marker)
    IN  /\ HasSub(u, marker)
        /\ i + 4 <= Len(u)
        /\ ~IsDelimiter(u[i]) /\ u[i + 1].o = "/"
        /\ ~IsDelimiter(u[i + 2]) /\ u[i + 3].o = "/"
        /\ ~IsDelimiter(u[i + 4])

\* the fourth pattern has no group 1: match.group(1) raises IndexError
PytubePatterns(u) ==
    LET watch == SegmentAfter(u, <<YoutubeCom, Lit("watch", 5), Lit("?", 1), Lit("v=", 2)>>)
        short == SegmentAfter(u, <<Lit("youtu.be/", 9)>>)
        embed == SegmentAfter(u, <<YoutubeCom, Lit("embed/", 6)>>)
        oldEmbed == SegmentAfter(u, <<YoutubeCom, Lit("v/", 2)>>)
    IN  IF watch # <<>> THEN Ret(Str(watch))
        ELSE IF short # <<>> THEN Ret(Str(short))
        ELSE IF embed # <<>> THEN Ret(Str(embed))
        ELSE IF oldEmbed # <<>> THEN Ret(Str(oldEmbed))
        ELSE IF UserPatternMatches(u) THEN Raise("IndexError")
        ELSE Ret(None)

\* yt = YouTube(youtube_url); return yt.video_id, in its own try/except
PytubeIdFallback(backend) ==
    LET body == IF backend.kind = "raise" THEN Raise("RegexMatchError")
                ELSE IF backend.kind = "info" THEN Ret(Get(backend.info, "id", None))
                ELSE Ret(None)
    IN  IF body.raised THEN Ret(None) ELSE body

pytube_extract_video_id(youtube_url, backend) ==
    LET matched == PytubePatterns(youtube_url.parts)
        body == IF matched.raised \/ matched.value # None THEN matched
                ELSE PytubeIdFallback(backend)
    IN  IF body.raised THEN Ret(None) ELSE body

(***************************************************************************)
(* download_audio (lines 34-118), transcribe_audio (lines 120-147) and     *)
(* summarize_transcript (lines 149-184) of the pytube version.             *)
(***************************************************************************)
Mp3File == "video.mp3"

\* for attempt in range(retry_count): audio_stream = ...first()
RECURSIVE FirstStream(_)
FirstStream(attempts) ==
    IF attempts = <<>> THEN FALSE
    ELSE IF Head(attempts) = "found" THEN TRUE
    ELSE FirstStream(Tail(attempts))

\* for attempt in range(retry_count): audio_file = audio_stream.download(...);
\* "raise_partial" raises after a part of the file was written
RECURSIVE DownloadAttempts(_, _, _)
DownloadAttempts(attempts, target, fs) ==
    IF attempts = <<>> THEN [file |-> "", files |-> fs]
    ELSE IF Head(attempts) = "ok" THEN [file |-> target, files |-> fs \cup {target}]
    ELSE IF Head(attempts) = "raise_partial"
    THEN DownloadAttempts(Tail(attempts), target, fs \cup {target})
    ELSE DownloadAttempts(Tail(attempts), target, fs)

download_audio(env, fs) ==
    IF env.ctor = "raise" THEN [out |-> Ret(""), files |-> fs]
    ELSE IF ~FirstStream(env.stream) THEN [out |-> Ret(""), files |-> fs]
    ELSE LET target == IF env.ext = "mp3" THEN Mp3File ELSE "video.mp4"
             dl == DownloadAttempts(env.download, target, fs)
         IN  IF dl.file = "" THEN [out |-> Ret(""), files |-> dl.files]
             ELSE IF env.ext = "mp3" THEN [out |-> Ret(dl.file), files |-> dl.files]
             ELSE IF env.convert = "ok"
             THEN [out |-> Ret(Mp3File), files |-> (dl.files \cup {Mp3File}) \ {dl.file}]
             ELSE IF env.convert = "raise_partial"
             THEN [out |-> Ret(dl.file), files |-> dl.files \cup {Mp3File}]
             ELSE [out |-> Ret(dl.file), files |-> dl.files]

PytubeDownloadDefaults ==
    [ctor |-> "ok", stream |-> <<"found">>, ext |-> "mp4", download |-> <<"ok">>,
     convert |-> "ok"]

PytubeDownloadEnvs ==
    { [PytubeDownloadDefaults EXCEPT !.ctor = "raise"] }
    \cup { [PytubeDownloadDefaults EXCEPT !.stream = a] :
               a \in { <<"none", "raise", "found">>, <<"raise", "none", "none">> } }
    \cup { [PytubeDownloadDefaults EXCEPT !.download = a, !.ext = x] :
               a \in { <<"ok">>, <<"raise_partial", "ok">>, <<"raise", "raise", "raise">>,
                       <<"raise", "raise_partial", "raise">> },
               x \in {"mp3", "mp4"} }
    \cup { [PytubeDownloadDefaults EXCEPT !.convert = c] : c \in {"raise", "raise_partial"} }

PytubeDownloadFailed(env) ==
    \/ env.ctor = "raise"
    \/ env.stream[1] # "found"
    \/ env.download[1] # "ok"
    \/ env.convert # "ok"

\* lines 130-147: every exception gives None
pytube_transcribe_audio(tr) ==
    LET body == IF tr.api = "text" THEN Ret(tr.text) ELSE Raise(tr.api)
    IN  IF body.raised THEN Ret(None) ELSE body

\* transcript[:n]
RECURSIVE TakeChars(_, _)
TakeChars(p, n) ==
    IF p = <<>> \/ n <= 0 THEN <<>>
    ELSE IF Head(p).w <= n THEN <<Head(p)>> \o TakeChars(Tail(p), n - Head(p).w)
    ELSE <<Lit(Head(p).o, n)>>

summarize_transcript(transcript, summarizer, max_length) ==
    IF transcript.len <= max_length THEN transcript
    ELSE IF summarizer.api = "text" THEN summarizer.summary
    ELSE Str(TakeChars(transcript.parts, max_length)
             \o <<Lit("... [truncated due to length]", 29)>>)

PytubeTranscribeEnvs ==
    { [api |-> "text", text |-> t] :
          t \in { EmptyStr, Str(<<Lit("speech", 50)>>), Str(<<Lit("speech", 5000)>>),
                  Str(<<Lit("speech", 4000), SP, Lit("speech", 1000)>>) } }
    \cup { [api |-> a, text |-> EmptyStr] : a \in {"FileNotFoundError", "APIError"} }

Summarizers ==
    { [api |-> "text", summary |-> Str(<<Lit("summary", 1200)>>)],
      [api |-> "APIError", summary |-> EmptyStr] }

(***************************************************************************)
(* get_captions, lines 273-370, and get_youtube_transcript_api, lines     *)
(* 372-445, of the pytube version.                                         *)
(***************************************************************************)
\* for elem in root.findall('.//text'): if elem.text: lines.append(elem.text.strip())
JoinedElements(elems) == JoinSpace(StrippedLines(SelectSeq(elems, LAMBDA e : e # <<>>)))

GetCaptionsBody(env) ==
    LET first == IF env.pt = "ok" THEN Ret(JoinedElements(env.elems))
                 ELSE IF env.pt = "none" THEN Ret(None)
                 ELSE Raise(env.pt)
        second == IF env.direct = "raise" THEN Raise("ConnectionError")
                  ELSE IF env.direct = "badxml" THEN Raise("ParseError")
                  ELSE IF env.direct = "track" /\ env.trackHasChildren
                  THEN IF env.capstatus = "ok" THEN Ret(JoinedElements(env.elems))
                       ELSE IF env.capstatus = "badxml" THEN Raise("ParseError")
                       ELSE Ret(None)
                  ELSE Ret(None)
    IN  IF ~first.raised /\ first.value # None THEN first
        ELSE IF ~second.raised /\ second.value # None THEN second
        ELSE Ret(None)

get_captions(env) ==
    LET body == GetCaptionsBody(env)
    IN  IF body.raised THEN Ret(None) ELSE body

CaptionElements ==
    { <<>>, << <<SP, Lit("caption", 50), SP>>, <<>>, <<Lit("caption", 49)>> >> }

GetCaptionsDefaults ==
    [pt |-> "none", elems |-> <<>>, direct |-> "non200", trackHasChildren |-> FALSE,
     capstatus |-> "ok"]

GetCaptionsEnvs ==
    { [GetCaptionsDefaults EXCEPT !.pt = "ok", !.elems = e] : e \in CaptionElements }
    \cup { [GetCaptionsDefaults EXCEPT !.pt = x] : x \in {"RegexMatchError", "ParseError"} }
    \cup { [GetCaptionsDefaults EXCEPT !.direct = d] : d \in {"raise", "badxml", "notrack"} }
    \cup { [GetCaptionsDefaults EXCEPT !.direct = "track", !.trackHasChildren = h,
                                       !.capstatus = c, !.elems = e] :
               h \in BOOLEAN, c \in {"ok", "non200", "badxml"},
               e \in CaptionElements \ {<<>>} }

GetCaptionsFailed(env) ==
    \/ env.pt \notin {"ok", "none"}
    \/ env.pt = "none" /\ env.direct \in {"raise", "badxml", "non200"}

\* the body of one instance, lines 395-439
AltInstanceBody(env) ==
    IF env.status = "raise" THEN Raise("ConnectionError")
    ELSE IF env.status = "non200" THEN Ret(None)
    ELSE LET lines == IF env.captions # <<>> /\ env.capstatus = "ok" THEN env.lines ELSE <<>>
             title == Get(env, "title", EmptyStr)
             description == Get(env, "description", EmptyStr)
         IN  IF env.captions # <<>> /\ env.capstatus = "raise" THEN Raise("ConnectionError")
             ELSE IF lines # <<>> THEN Ret(JoinSpace(lines))
             ELSE IF Truthy(title) /\ Truthy(description)
             THEN Ret(TitleDescription(title, description))
             ELSE Ret(None)

\* for instance in instances: an exception goes on with the next instance
RECURSIVE AltInstances(_, _)
AltInstances(envs, k) ==
    IF k > Len(envs) THEN Ret(None)
    ELSE LET r == AltInstanceBody(envs[k])
         IN  IF ~r.raised /\ r.value # None THEN r ELSE AltInstances(envs, k + 1)

get_youtube_transcript_api(envs) ==
    LET body == AltInstances(envs, 1)
    IN  IF body.raised THEN Ret(None) ELSE body

AltFailingInstances ==
    { [status |-> "raise"], [status |-> "non200"],
      [status |-> "ok", captions |-> <<"en">>, capstatus |-> "raise", lines |-> <<>>,
       title |-> TitleA, description |-> Description(201)] }

AltAnsweringInstances ==
    { [status |-> "ok", captions |-> <<"en">>, capstatus |-> "ok",
       lines |-> <<Str(<<Lit("line", 30)>>), Str(<<Lit("line", 19)>>)>>],
      [status |-> "ok", captions |-> <<"fr">>, capstatus |-> "non200", lines |-> <<>>,
       title |-> TitleA, description |-> Description(201)],
      [status |-> "ok", captions |-> <<>>, capstatus |-> "ok", lines |-> <<>>, title |-> TitleA],
      [status |-> "ok", captions |-> <<>>, capstatus |-> "ok", lines |-> <<>>,
       title |-> TitleA, description |-> Description(6000)] }

AltEnvs ==
    { [k \in 1..PytubeInstances |-> IF k = j THEN e ELSE f] :
          f \in AltFailingInstances, e \in AltFailingInstances \cup AltAnsweringInstances,
          j \in {1, PytubeInstances} }

(***************************************************************************)
(* process_youtube_url of both versions.  One behaviour is one call; pc   *)
(* is the place of the call in the method, "done" after a return and      *)
(* "raised" after an exception left the method.                            *)
(***************************************************************************)
\* faulty variants of the acceptance gate: a mistyped threshold, and `>=`
AcceptedAbove5000(t) == Truthy(t) /\ t.len > 5000
AcceptedAtLeast(t) == Truthy(t) /\ t.len >= MinTranscriptLen

\* `if t and len(t) > 500`
AcceptedAsFinal(t) == Truthy(t) /\ t.len > MinTranscriptLen

\* faulty variant of the stub: metadata.get('author') without the 'Unknown' default
FallbackTextAuthorKey(md) ==
    UnableToExtract(Get(md, "title", Unknown), Get(md, "author", None))

\* lines 895-898
FallbackText(metadata) ==
    UnableToExtract(Get(metadata, "title", Unknown), Get(metadata, "author", Unknown))

\* faulty variant of the partial-content chain: the branches in reverse order
PartialLastFirst(api, proxy, full, invidious, md) ==
    IF Truthy(invidious) THEN invidious
    ELSE IF Truthy(full) THEN full
    ELSE IF Truthy(proxy) THEN proxy
    ELSE IF Truthy(api) THEN api
    ELSE FallbackText(md)

\* faulty variant of the partial-content chain: no stub at its end
PartialOrNone(api, proxy, full, invidious, md) ==
    IF Truthy(api) THEN api
    ELSE IF Truthy(proxy) THEN proxy
    ELSE IF Truthy(full) THEN full
    ELSE invidious

\* lines 881-898: the if/elif chain over the four outputs, then the stub
PartialOrFallback(api, proxy, full, invidious, metadata) ==
    IF Truthy(api) THEN api
    ELSE IF Truthy(proxy) THEN proxy
    ELSE IF Truthy(full) THEN full
    ELSE IF Truthy(invidious) THEN invidious
    ELSE FallbackText(metadata)

StrategyOrder ==
    << "get_transcript_with_youtube_transcript_api",
       "get_transcript_from_proxy_service",
       "get_full_transcript_with_enhanced_yt_dlp",
       "get_transcript_from_invidious_with_enhanced_options" >>

PytubeStrategyOrder == <<"download_audio", "get_captions", "get_youtube_transcript_api">>

VARIABLES impl, pc, video_url, metadata, video_id,
          transcript_from_api, proxy_transcript, full_transcript,
          enhanced_invidious_transcript,
          transcript, captions, alt_transcript,
          result, calls, backend_raised, failed_to_none, files,
          invidious_instances, user_agents,
          component_call, requests

vars == << impl, pc, video_url, metadata, video_id,
           transcript_from_api, proxy_transcript, full_transcript,
           enhanced_invidious_transcript,
           transcript, captions, alt_transcript,
           result, calls, backend_raised, failed_to_none, files,
           invidious_instances, user_agents, component_call, requests >>

ytdlp_locals == << transcript_from_api, proxy_transcript, full_transcript,
                   enhanced_invidious_transcript >>
pytube_locals == << transcript, captions, alt_transcript >>
lists == << invidious_instances, user_agents >>

\* faulty variant: the record of the subtitle/download strategy (lines
\* 400-404) is handed back in place of the caller's
ReturnedStrategyMetadata(text, md) ==
    [text |-> text,
     metadata |-> [title |-> Unknown, author |-> Unknown, length_seconds |-> 0]]

Returned(text, md) == [text |-> text, metadata |-> md]

\* one call of a component: its name, its argument, how it ended
Call(fn, arg, out) == [fn |-> fn, arg |-> arg, out |-> out]

\* the last component call returned None after a lower-level call of it failed
FailedToNone(failed, out) == failed /\ ~out.raised /\ out.value = None

\* faulty variant: a shuffle that may drop an entry and repeat another
PermsWithRepeats(seq) == [DOMAIN seq -> {seq[i] : i \in DOMAIN seq}]

\* the orders random.shuffle may leave a list in
Perms(seq) ==
    { p \in [DOMAIN seq -> {seq[i] : i \in DOMAIN seq}] :
          \A i, j \in DOMAIN seq : i # j => p[i] # p[j] }

Init ==
    /\ impl \in {"ytdlp", "pytube"}
    /\ video_url \in (IF impl = "pytube" THEN PytubeUrls ELSE Urls)
    /\ pc = "start"
    /\ metadata = None
    /\ video_id = None
    /\ transcript_from_api = None
    /\ proxy_transcript = None
    /\ full_transcript = None
    /\ enhanced_invidious_transcript = None
    /\ transcript = None
    /\ captions = None
    /\ alt_transcript = None
    /\ result = [text |-> None, metadata |-> None]
    /\ calls = <<>>
    /\ backend_raised = FALSE
    /\ failed_to_none = FALSE
    /\ files = {}
    /\ invidious_instances = [i \in 1..NumInstances |-> i]
    /\ user_agents = [i \in 1..NumUserAgents |-> i]
    /\ component_call = None
    /\ requests = <<>>

\* lines 799-836
FetchMetadata ==
    /\ impl = "ytdlp"
    /\ pc = "start"
    /\ \E o \in {BackendRaises, BackendNoInfo} \cup {BackendInfo(i) : i \in FlatInfos} :
          /\ metadata' = FetchedMetadata(video_url, o)
          /\ backend_raised' = (o.kind = "raise")
    /\ pc' = "resolve"
    /\ UNCHANGED << requests, component_call, impl, video_url, video_id, ytdlp_locals, pytube_locals, result, calls,
                    failed_to_none, files, lists >>

\* faulty variant: the id of the metadata is not looked at
MetadataVideoIdIgnored(md) == None

\* metadata.get('video_id'), line 839
MetadataVideoId(md) == Get(md, "video_id", None)

\* lines 838-844: metadata.get on None raises AttributeError
ResolveVideoId ==
    /\ impl = "ytdlp"
    /\ pc = "resolve"
    /\ IF metadata = None
       THEN /\ pc' = "raised"
            /\ UNCHANGED << video_id, calls, failed_to_none, result >>
       ELSE IF Truthy(MetadataVideoId(metadata))
       THEN /\ video_id' = MetadataVideoId(metadata)
            /\ pc' = "method1"
            /\ UNCHANGED << calls, failed_to_none, result >>
       ELSE \E b \in IdBackendOutcomes :
               LET r == extract_video_id(video_url, b)
               IN  /\ calls' = Append(calls, Call("extract_video_id", video_url, r))
                   /\ failed_to_none' =
                        FailedToNone(~UrlPatternReturns(video_url.parts) /\ b.kind = "raise", r)
                   /\ video_id' = r.value
                   /\ IF r.raised
                      THEN pc' = "raised" /\ UNCHANGED result
                      ELSE IF ~Truthy(r.value)
                      THEN pc' = "done" /\ result' = Returned(None, metadata)
                      ELSE pc' = "method1" /\ UNCHANGED result
    /\ UNCHANGED << requests, component_call, backend_raised, impl, video_url, metadata, ytdlp_locals, pytube_locals, files, lists >>

\* faulty variant: the first strategy is entered again when its output is
\* not accepted
AfterStrategyAgain(r, next) ==
    IF r.raised THEN pc' = "raised" /\ UNCHANGED result
    ELSE IF AcceptedAsFinal(r.value)
    THEN pc' = "done" /\ result' = Returned(r.value, metadata)
    ELSE pc' = (IF calls = <<>> THEN pc ELSE next) /\ UNCHANGED result

\* `if t and len(t) > 500: return t, metadata`, else the next method
AfterStrategy(r, next) ==
    IF r.raised THEN pc' = "raised" /\ UNCHANGED result
    ELSE IF AcceptedAsFinal(r.value)
    THEN pc' = "done" /\ result' = Returned(r.value, metadata)
    ELSE pc' = next /\ UNCHANGED result

\* lines 849-855
Method1 ==
    /\ pc = "method1"
    /\ \E env \in ApiEnvs("api") :
          LET r == get_transcript_with_youtube_transcript_api(env)
          IN  /\ calls' = Append(calls, Call(StrategyOrder[1], video_id, r))
              /\ failed_to_none' = FailedToNone(ApiFailed(env), r)
              /\ transcript_from_api' = r.value
              /\ AfterStrategy(r, "method2")
    /\ UNCHANGED << requests, component_call, backend_raised, impl, video_url, metadata, video_id, proxy_transcript, full_transcript,
                    enhanced_invidious_transcript, pytube_locals, files, lists >>

\* lines 857-863
Method2 ==
    /\ pc = "method2"
    /\ \E env \in ApiEnvs("proxy"), proxy \in get_random_proxy(load_proxies) :
          LET r == get_transcript_from_proxy_service(env)
          IN  /\ calls' = Append(calls, Call(StrategyOrder[2], video_id, r))
              /\ failed_to_none' = FailedToNone(ApiFailed(env), r)
              /\ proxy_transcript' = r.value
              /\ AfterStrategy(r, "method3")
    /\ UNCHANGED << requests, component_call, backend_raised, impl, video_url, metadata, video_id, transcript_from_api, full_transcript,
                    enhanced_invidious_transcript, pytube_locals, files, lists >>

\* lines 865-871
Method3 ==
    /\ pc = "method3"
    /\ \E env \in YtDlpEnvs :
          LET r == get_full_transcript_with_enhanced_yt_dlp(video_url, env, files)
          IN  /\ calls' = Append(calls, Call(StrategyOrder[3], video_url, r.out))
              /\ failed_to_none' = FailedToNone(YtDlpFailed(env), r.out)
              /\ files' = r.files
              /\ full_transcript' = r.out.value
              /\ AfterStrategy(r.out, "method4")
    /\ UNCHANGED << requests, component_call, backend_raised, impl, video_url, metadata, video_id, transcript_from_api, proxy_transcript,
                    enhanced_invidious_transcript, pytube_locals, lists >>

\* lines 877-898: the mirror's output, else the partial content or the stub;
\* the call is recorded with the log of its requests
Method4Returns(r) ==
    /\ calls' = Append(calls, [fn |-> StrategyOrder[4], arg |-> video_id, out |-> r.out,
                               log |-> r.log])
    /\ failed_to_none' = FailedToNone(r.failed, r.out)
    /\ enhanced_invidious_transcript' = r.out.value
    /\ IF r.out.raised THEN pc' = "raised" /\ UNCHANGED result
       ELSE /\ pc' = "done"
            /\ result' =
                 IF AcceptedAsFinal(r.out.value) THEN Returned(r.out.value, metadata)
                 ELSE Returned(PartialOrFallback(transcript_from_api, proxy_transcript,
                                                 full_transcript, r.out.value, metadata),
                               metadata)

\* lines 873-898
Method4 ==
    /\ pc = "method4"
    /\ \E envs \in MirrorEnvs :
          Method4Returns(get_transcript_from_invidious_with_enhanced_options(envs))
    /\ invidious_instances' \in Perms(invidious_instances)
    /\ user_agents' \in Perms(user_agents)
    /\ UNCHANGED << requests, component_call, backend_raised, impl, video_url, metadata, video_id, transcript_from_api, proxy_transcript,
                    full_transcript, pytube_locals, files >>

\* copy, line 458
PytubeFetchMetadata ==
    /\ impl = "pytube"
    /\ pc = "start"
    /\ \E env \in PytubeMetadataEnvs :
          LET r == get_video_metadata(video_url, env)
          IN  /\ calls' = Append(calls, Call("get_video_metadata", video_url, r))
              /\ backend_raised' =
                   (env.ctor = "raise" \/ \A k \in DOMAIN env.reads : env.reads[k] = "raise")
              /\ metadata' = r.value
              /\ pc' = IF r.raised THEN "raised" ELSE "resolve"
    /\ UNCHANGED << requests, component_call, impl, video_url, video_id, ytdlp_locals, pytube_locals, result,
                    failed_to_none, files, lists >>

\* copy, lines 460-464
PytubeResolveVideoId ==
    /\ impl = "pytube"
    /\ pc = "resolve"
    /\ \E b \in {BackendRaises, BackendInfo([id |-> BackendId])} :
          LET r == pytube_extract_video_id(video_url, b)
          IN  /\ calls' = Append(calls, Call("extract_video_id", video_url, r))
              /\ failed_to_none' =
                   FailedToNone(b.kind = "raise" \/ PytubePatterns(video_url.parts).raised, r)
              /\ video_id' = r.value
              /\ IF r.raised
                 THEN pc' = "raised" /\ UNCHANGED result
                 ELSE IF ~Truthy(r.value)
                 THEN pc' = "done" /\ result' = Returned(None, metadata)
                 ELSE pc' = "audio" /\ UNCHANGED result
    /\ UNCHANGED << requests, component_call, backend_raised, impl, video_url, metadata, ytdlp_locals, pytube_locals, files, lists >>

\* copy, lines 469-491
PytubeMethod1 ==
    /\ impl = "pytube"
    /\ pc = "audio"
    /\ \E env \in PytubeDownloadEnvs, tr \in PytubeTranscribeEnvs, sm \in Summarizers :
          LET dl == download_audio(env, files)
              audio_file == dl.out.value
              t == IF audio_file # "" THEN pytube_transcribe_audio(tr).value ELSE None
          IN  /\ calls' = Append(calls, Call(PytubeStrategyOrder[1], video_url,
                                             Ret(IF audio_file = "" THEN None
                                                 ELSE Str(<<Lit(audio_file, 9)>>))))
              /\ failed_to_none' = (PytubeDownloadFailed(env) /\ audio_file = "")
              /\ files' = IF audio_file # "" THEN dl.files \ {audio_file} ELSE dl.files
              /\ transcript' = t
              /\ IF Truthy(t)
                 THEN /\ pc' = "done"
                      /\ result' = Returned(summarize_transcript(t, sm, MaxSummaryLength),
                                            metadata)
                 ELSE pc' = "captions" /\ UNCHANGED result
    /\ UNCHANGED << requests, component_call, backend_raised, impl, video_url, metadata, video_id, ytdlp_locals, captions, alt_transcript,
                    lists >>

\* copy, lines 493-500
PytubeMethod2 ==
    /\ impl = "pytube"
    /\ pc = "captions"
    /\ \E env \in GetCaptionsEnvs, sm \in Summarizers :
          LET r == get_captions(env)
          IN  /\ calls' = Append(calls, Call(PytubeStrategyOrder[2], video_id, r))
              /\ failed_to_none' = FailedToNone(GetCaptionsFailed(env), r)
              /\ captions' = r.value
              /\ IF r.raised THEN pc' = "raised" /\ UNCHANGED result
                 ELSE IF Truthy(r.value)
                 THEN /\ pc' = "done"
                      /\ result' = Returned(summarize_transcript(r.value, sm, MaxSummaryLength),
                                            metadata)
                 ELSE pc' = "alternative" /\ UNCHANGED result
    /\ UNCHANGED << requests, component_call, backend_raised, impl, video_url, metadata, video_id, ytdlp_locals, transcript,
                    alt_transcript, files, lists >>

\* faulty variant: a stub text when the three methods yielded nothing
PytubeMethod3Stub ==
    /\ impl = "pytube"
    /\ pc = "alternative"
    /\ \E envs \in AltEnvs, sm \in Summarizers :
          LET r == get_youtube_transcript_api(envs)
          IN  /\ calls' = Append(calls, Call(PytubeStrategyOrder[3], video_id, r))
              /\ alt_transcript' = r.value
              /\ IF r.raised THEN pc' = "raised" /\ UNCHANGED result
                 ELSE /\ pc' = "done"
                      /\ result' =
                           IF Truthy(r.value)
                           THEN Returned(summarize_transcript(r.value, sm, MaxSummaryLength),
                                         metadata)
                           ELSE Returned(FallbackText(metadata), metadata)
    /\ UNCHANGED << requests, component_call, backend_raised, impl, video_url, metadata, video_id,
                    ytdlp_locals, transcript, captions, failed_to_none, files, lists >>

\* copy, lines 502-513
PytubeMethod3 ==
    /\ impl = "pytube"
    /\ pc = "alternative"
    /\ \E envs \in AltEnvs, sm \in Summarizers :
          LET r == get_youtube_transcript_api(envs)
          IN  /\ calls' = Append(calls, Call(PytubeStrategyOrder[3], video_id, r))
              /\ failed_to_none' = FailedToNone((\E k \in DOMAIN envs :
                                    envs[k].status # "ok" \/ envs[k].capstatus = "raise"), r)
              /\ alt_transcript' = r.value
              /\ IF r.raised THEN pc' = "raised" /\ UNCHANGED result
                 ELSE /\ pc' = "done"
                      /\ result' =
                           IF Truthy(r.value)
                           THEN Returned(summarize_transcript(r.value, sm, MaxSummaryLength),
                                         metadata)
                           ELSE Returned(None, metadata)
    /\ UNCHANGED << requests, component_call, backend_raised, impl, video_url, metadata, video_id, ytdlp_locals, transcript, captions,
                    files, lists >>

Next ==
    \/ FetchMetadata
    \/ ResolveVideoId
    \/ Method1
    \/ Method2
    \/ Method3
    \/ Method4
    \/ PytubeFetchMetadata
    \/ PytubeResolveVideoId
    \/ PytubeMethod1
    \/ PytubeMethod2
    \/ PytubeMethod3

Spec == Init /\ [][Next]_vars

(***************************************************************************)
(* The component methods called on their own.  One behaviour is one call  *)
(* of one method; component_call keeps what the external services         *)
(* answered during the call (env) and what the method returned.           *)
(***************************************************************************)
\* the tracks of a video: the track each level finds has its own text
TrackEnvs ==
    { [list |-> l, l1 |-> "ok", l2 |-> "ok", l3 |-> "ok", l4 |-> "ok", language |-> "en",
       entries |-> [k \in 1..4 |-> <<>>]] :
          l \in {"TranscriptsDisabled", "ConnectionError"} }
    \cup
    [list : {"ok"}, l1 : LevelOutcomes, l2 : LevelOutcomes, l3 : LevelOutcomes,
     l4 : {"IndexError", "FetchError", "ok"}, language : {"en", "de"},
     entries : { [k \in 1..4 |->
                    LET track == <<"en", "en (auto-generated)", "en-GB", "first of the list">>[k]
                    IN  <<Str(<<Lit(track, 30)>>), Str(<<Lit(track, 29)>>)>>] }]

ComponentInit ==
    /\ impl = "ytdlp"
    /\ video_url \in Urls
    /\ pc = "component"
    /\ metadata = None
    /\ video_id = None
    /\ transcript_from_api = None
    /\ proxy_transcript = None
    /\ full_transcript = None
    /\ enhanced_invidious_transcript = None
    /\ transcript = None
    /\ captions = None
    /\ alt_transcript = None
    /\ result = [text |-> None, metadata |-> None]
    /\ calls = <<>>
    /\ backend_raised = FALSE
    /\ failed_to_none = FALSE
    /\ files = {}
    /\ invidious_instances = [i \in 1..NumInstances |-> i]
    /\ user_agents = [i \in 1..NumUserAgents |-> i]
    /\ component_call = None
    /\ requests = <<>>

\* what a component call leaves alone
orchestrator_vars ==
    << impl, video_url, metadata, video_id, ytdlp_locals, pytube_locals, result, calls,
       backend_raised, failed_to_none >>

\* get_transcript_with_youtube_transcript_api(video_id) and
\* get_transcript_from_proxy_service(video_id) for the same tracks and failures;
\* sent is what lines 175-181 hand to list_transcripts: proxies=, or headers=
CallTranscriptApis ==
    /\ pc = "component"
    /\ \E env \in TrackEnvs, proxy \in get_random_proxy(load_proxies) :
          component_call' =
              [fn |-> "transcript_api", env |-> env, proxy |-> proxy,
               sent |-> IF proxy # "None" THEN "proxies" ELSE "headers",
               direct |-> get_transcript_with_youtube_transcript_api(env),
               proxied |-> get_transcript_from_proxy_service(env)]
    /\ pc' = "returned"
    /\ UNCHANGED << orchestrator_vars, files, lists, requests >>

\* get_full_transcript_with_enhanced_yt_dlp(video_url); subtitle_file is the
\* local of that name when a subtitle file was found.  The backend may also be
\* down at the metadata step while the audio download works
CallYtDlp ==
    /\ pc = "component"
    /\ \E env \in YtDlpEnvs \cup
                  { [YtDlpDefaults EXCEPT !.idb = BackendInfo([id |-> BackendId]), !.dl = "ok",
                                          !.tr = t] : t \in TranscribeEnvs } :
          LET r == get_full_transcript_with_enhanced_yt_dlp(video_url, env, files)
          IN  /\ component_call' =
                    [fn |-> "yt_dlp", env |-> env, out |-> r.out,
                     subtitle_file |-> Get(r, "subtitle_file", None), steps |-> r.steps]
              /\ files' = r.files
    /\ pc' = "returned"
    /\ UNCHANGED << orchestrator_vars, lists, requests >>

\* get_transcript_from_invidious_with_enhanced_options(video_id)
CallInvidious ==
    /\ pc = "component"
    /\ \E envs \in MirrorEnvs :
          LET r == get_transcript_from_invidious_with_enhanced_options(envs)
          IN  component_call' = [fn |-> "invidious", env |-> envs, out |-> r.out, log |-> r.log]
    /\ invidious_instances' \in Perms(invidious_instances)
    /\ user_agents' \in Perms(user_agents)
    /\ pc' = "returned"
    /\ UNCHANGED << orchestrator_vars, files, requests >>

\* extract_video_id(youtube_url) of both versions, for the URLs of the run and
\* for the four URL shapes with the id dQw4w9WgXcQ, alone or followed by a
\* parameter behind "&" or "?".  id is the id the URL embeds
CallExtractVideoId ==
    /\ pc = "component"
    /\ \E b \in IdBackendOutcomes,
          u \in { [url |-> x, id |-> None] : x \in PytubeUrls } \cup
                { [url |-> Str(<<Lit("https://", 8)>> \o shape \o <<Lit("dQw4w9WgXcQ", 11)>> \o trail),
                   id |-> Str(<<Lit("dQw4w9WgXcQ", 11)>>)] :
                     shape \in { <<Lit("youtu.be/", 9)>>,
                                 <<Lit("www.", 4), YoutubeCom, Lit("watch", 5), Lit("?", 1),
                                   Lit("v=", 2)>>,
                                 <<Lit("www.", 4), YoutubeCom, Lit("embed/", 6)>>,
                                 <<Lit("www.", 4), YoutubeCom, Lit("v/", 2)>> },
                     trail \in { <<>>, <<Lit("&", 1), Lit("t=42", 4)>>,
                                 <<Lit("?", 1), Lit("t=42", 4)>> } } :
          component_call' =
              [fn |-> "extract_video_id", youtube_url |-> u.url, id |-> u.id, backend |-> b,
               fixed |-> extract_video_id(u.url, b),
               copy |-> pytube_extract_video_id(u.url, b)]
    /\ pc' = "returned"
    /\ UNCHANGED << orchestrator_vars, files, lists, requests >>

\* the caption rules of the three places on one content: of the subtitle file
\* (lines 452-473), of STEP 1 and of STEP 2 of the mirror; reparsed is the first
\* rule on its own output.  A content is at most MaxLines lines: the header, a
\* blank line, a cue timing, a cue number, "-->" alone, and text lines, plain,
\* padded, with a tab, starting with a time of day
CallParsers ==
    /\ pc = "component"
    /\ \E fmt \in {"vtt", "srt", "other"}, n \in 0..MaxLines :
          \E content \in [1..n -> { <<WebVttHeader>>, <<>>, CueLine, <<Lit("1", 1)>>, <<Arrow>>,
                                    <<Lit("hello", 5)>>, <<SP, Lit("world", 5), SP>>,
                                    <<Lit("a", 1), Lit("\\t", 1), SP, Lit("b", 1)>>,
                                    <<Lit("12:30", 5), SP, Lit("meet", 4)>> }] :
             component_call' =
                 [fn |-> "parse", fmt |-> fmt, content |-> content,
                  subtitle_file |-> ParseCaptions(fmt, content),
                  captions |-> MirrorParse(1, fmt, content),
                  details |-> MirrorParse(2, fmt, content),
                  reparsed |-> ParseCaptions(fmt, SplitLines(ParseCaptions(fmt, content).parts))]
    /\ pc' = "returned"
    /\ UNCHANGED << orchestrator_vars, files, lists, requests >>

ComponentNext ==
    \/ CallTranscriptApis
    \/ CallYtDlp
    \/ CallInvidious
    \/ CallExtractVideoId
    \/ CallParsers

ComponentSpec == ComponentInit /\ [][ComponentNext]_vars

(***************************************************************************)
(* Concurrent requests: NumRequests calls of                               *)
(* get_transcript_from_invidious_with_enhanced_options on one service     *)
(* object, whose lists invidious_instances and user_agents they shuffle   *)
(* in place (lines 528, 532) and iterate by position (lines 530, 534).    *)
(* No pair yields a text.  requests[r] holds the position of request r in *)
(* the two loops, the instances its outer loop took and the pairs it      *)
(* tried.  A step is one shuffle or one advance of a list iterator.       *)
(* requests[r].alone says that no other request was between its first and *)
(* its last step while r was: r ran as in a single-threaded program.      *)
(***************************************************************************)
NumRequests == 2

\* the requests after a step of r: r and the requests in the middle of
\* their run have overlapped
Stepped(r, next) ==
    LET running == {q \in DOMAIN requests \ {r} :
                       requests[q].pc \notin {"shuffle", "returned"}}
    IN  [q \in DOMAIN next |->
            IF running # {} /\ q \in running \cup {r}
            THEN [next[q] EXCEPT !.alone = FALSE]
            ELSE next[q]]

ConcurrentInit ==
    /\ impl = "ytdlp"
    /\ video_url = None
    /\ pc = "concurrent"
    /\ metadata = None
    /\ video_id = None
    /\ transcript_from_api = None
    /\ proxy_transcript = None
    /\ full_transcript = None
    /\ enhanced_invidious_transcript = None
    /\ transcript = None
    /\ captions = None
    /\ alt_transcript = None
    /\ result = [text |-> None, metadata |-> None]
    /\ calls = <<>>
    /\ backend_raised = FALSE
    /\ failed_to_none = FALSE
    /\ files = {}
    /\ invidious_instances = [i \in 1..NumInstances |-> i]
    /\ user_agents = [i \in 1..NumUserAgents |-> i]
    /\ component_call = None
    /\ requests = [r \in 1..NumRequests |->
                      [pc |-> "shuffle", i |-> 0, j |-> 0, instances |-> <<>>, pairs |-> <<>>,
                       alone |-> TRUE]]

\* line 528: random.shuffle(self.invidious_instances)
ShuffleInstances(r) ==
    /\ requests[r].pc = "shuffle"
    /\ invidious_instances' \in Perms(invidious_instances)
    /\ requests' = Stepped(r, [requests EXCEPT ![r].pc = "instances"])
    /\ UNCHANGED << orchestrator_vars, files, user_agents, component_call, pc >>

\* lines 530-532: the list iterator of `for instance in self.invidious_instances`
\* yields the element at its position, or ends the loop (lines 731-732); then
\* random.shuffle(self.user_agents)
NextInstance(r) ==
    /\ requests[r].pc = "instances"
    /\ IF requests[r].i < Len(invidious_instances)
       THEN /\ requests' =
                 Stepped(r, [requests EXCEPT ![r].pc = "user_agents",
                                             ![r].i = @ + 1,
                                             ![r].j = 0,
                                             ![r].instances =
                                                 Append(@, invidious_instances[requests[r].i + 1])])
            /\ user_agents' \in Perms(user_agents)
       ELSE /\ requests' = Stepped(r, [requests EXCEPT ![r].pc = "returned"])
            /\ UNCHANGED user_agents
    /\ UNCHANGED << orchestrator_vars, files, invidious_instances, component_call, pc >>

\* lines 534-729: the list iterator of `for user_agent in self.user_agents`
\* yields the element at its position and the pair is tried without result, or
\* the loop ends and the outer loop goes on
NextUserAgent(r) ==
    /\ requests[r].pc = "user_agents"
    /\ requests' =
          Stepped(r,
             IF requests[r].j < Len(user_agents)
             THEN [requests EXCEPT ![r].j = @ + 1,
                                   ![r].pairs =
                                       Append(@, << requests[r].instances[Len(requests[r].instances)],
                                                    user_agents[requests[r].j + 1] >>)]
             ELSE [requests EXCEPT ![r].pc = "instances"])
    /\ UNCHANGED << orchestrator_vars, files, lists, component_call, pc >>

ConcurrentNext ==
    \E r \in 1..NumRequests :
       \/ ShuffleInstances(r)
       \/ NextInstance(r)
       \/ NextUserAgent(r)

ConcurrentSpec == ConcurrentInit /\ [][ConcurrentNext]_vars

(***************************************************************************)
(* What the properties below talk about: the component calls of the run.  *)
(***************************************************************************)
StrategyNames == {StrategyOrder[k] : k \in DOMAIN StrategyOrder}
PytubeStrategyNames == {PytubeStrategyOrder[k] : k \in DOMAIN PytubeStrategyOrder}

StrategyCalls == SelectSeq(calls, LAMBDA c : c.fn \in StrategyNames)
PytubeStrategyCalls == SelectSeq(calls, LAMBDA c : c.fn \in PytubeStrategyNames)
ExtractCalls == SelectSeq(calls, LAMBDA c : c.fn = "extract_video_id")

OutputLength(c) == IF c.out.value = None THEN 0 ELSE c.out.value.len

Min(S) == CHOOSE k \in S : \A j \in S : k <= j

\* the strategies whose output is longer than 500 characters, and those
\* whose output is a non-empty text
LongOutputs == {k \in DOMAIN StrategyCalls : OutputLength(StrategyCalls[k]) > 500}
Candidates == {k \in DOMAIN StrategyCalls : OutputLength(StrategyCalls[k]) > 0}

\* the call returned after all four strategies ran without a long output
AllRanNoneLong ==
    /\ impl = "ytdlp"
    /\ pc = "done"
    /\ Len(StrategyCalls) = 4
    /\ LongOutputs = {}

MetadataHasId ==
    /\ metadata # None
    /\ "video_id" \in DOMAIN metadata
    /\ Truthy(metadata.video_id)

(***************************************************************************)
(* C1: process_youtube_url never propagates an exception: whatever the    *)
(* metadata backend does (info, no info without raising, raise) and       *)
(* whatever the strategies do, the call ends by returning a pair.         *)
(* Refuted: when the backend returns no info, metadata is still None at   *)
(* line 839 and metadata.get raises AttributeError.                        *)
(***************************************************************************)
C1_NeverRaises == pc # "raised"

(***************************************************************************)
(* C2: the strategies are invoked only in the order direct, proxied,      *)
(* subtitle/download, mirror, each at most once; strategy k+1 only after  *)
(* strategy k returned None, empty text or at most 500 characters; after  *)
(* an output longer than 500 characters no later strategy is invoked.     *)
(***************************************************************************)
C2_OrderedAtMostOnce ==
    /\ Len(StrategyCalls) <= Len(StrategyOrder)
    /\ \A k \in DOMAIN StrategyCalls : StrategyCalls[k].fn = StrategyOrder[k]
    /\ \A k \in DOMAIN StrategyCalls :
          OutputLength(StrategyCalls[k]) > 500 => k = Len(StrategyCalls)

\* strategy 1 returned 600 characters: the call is over and strategies 2-4
\* have call count 0
C2_Witness ==
    /\ pc = "done"
    /\ Len(StrategyCalls) = 1
    /\ OutputLength(StrategyCalls[1]) = 600
    /\ result.text = StrategyCalls[1].out.value

(***************************************************************************)
(* C3: when a video id is resolved and some strategy's output is longer   *)
(* than 500 characters, the returned text is the output of the earliest   *)
(* such strategy; an output of exactly 500 characters is not accepted as  *)
(* final: the next strategy is invoked.                                    *)
(***************************************************************************)
C3_EarliestLongOutput ==
    /\ (impl = "ytdlp" /\ pc = "done" /\ LongOutputs # {})
          => result.text = StrategyCalls[Min(LongOutputs)].out.value
    /\ \A k \in DOMAIN StrategyCalls :
          (k < Len(StrategyOrder) /\ pc = "done" /\ OutputLength(StrategyCalls[k]) = 500)
             => Len(StrategyCalls) > k

\* strategy 1 returned exactly 500 characters, strategy 2 nothing, strategy 3
\* more than 500: the call returned strategy 3's text
C3_Witness ==
    /\ pc = "done"
    /\ Len(StrategyCalls) = 3
    /\ OutputLength(StrategyCalls[1]) = 500
    /\ StrategyCalls[2].out.value = None
    /\ OutputLength(StrategyCalls[3]) > 500
    /\ result.text = StrategyCalls[3].out.value

(***************************************************************************)
(* C4, as the code has it: when all four strategies have run and none     *)
(* returned more than 500 characters, the call returns the non-empty      *)
(* output of the first strategy, in priority order, that returned         *)
(* non-empty text, whatever the lengths of the others.                     *)
(***************************************************************************)
C4_FirstNonEmptyCandidate ==
    (AllRanNoneLong /\ Candidates # {})
       => result.text = StrategyCalls[Min(Candidates)].out.value

\* an earlier strategy's shorter text was returned although a later strategy
\* had a longer one
C4_Witness ==
    /\ AllRanNoneLong
    /\ \E j, k \in Candidates :
          /\ j < k
          /\ OutputLength(StrategyCalls[j]) < OutputLength(StrategyCalls[k])
          /\ result.text = StrategyCalls[j].out.value

\* C4 as stated: the returned text is the longest non-empty candidate
C4_LongestCandidate ==
    (AllRanNoneLong /\ Candidates # {})
       => \E k \in Candidates :
             /\ result.text = StrategyCalls[k].out.value
             /\ \A j \in Candidates :
                   OutputLength(StrategyCalls[j]) <= OutputLength(StrategyCalls[k])

(***************************************************************************)
(* C5: when a video id is resolved and every strategy returns None or     *)
(* empty text, the call returns a stub with "Title:" followed by the      *)
(* metadata's title, the metadata's author ("Unknown" when the metadata   *)
(* has no author) and "Unable to extract content".                         *)
(***************************************************************************)
StubTitle == IF "title" \in DOMAIN metadata THEN metadata.title ELSE Unknown
StubAuthor == IF "author" \in DOMAIN metadata THEN metadata.author ELSE Unknown

C5_StubWhenNothing ==
    (AllRanNoneLong /\ Candidates = {})
       => /\ result.text # None
          /\ HasSub(result.text.parts, <<Lit("Title:", 6), SP>> \o StubTitle.parts)
          /\ HasSub(result.text.parts, <<Lit("Author:", 7), SP>> \o StubAuthor.parts)
          /\ HasSub(result.text.parts, <<Lit("Unable to extract content", 25)>>)
          /\ result.metadata = metadata

\* every strategy returned None or '', the metadata has no author
C5_Witness ==
    /\ AllRanNoneLong
    /\ Candidates = {}
    /\ "author" \notin DOMAIN metadata
    /\ HasSub(result.text.parts, <<Lit("Author:", 7), SP>> \o Unknown.parts)
    /\ \E k \in DOMAIN StrategyCalls : StrategyCalls[k].out.value = EmptyStr

C7_TerminalMetadata ==
    pc \in {"done", "raised"}
       => /\ result.metadata # None
          /\ "title" \in DOMAIN result.metadata
          /\ "source_url" \in DOMAIN result.metadata
          /\ result.metadata.source_url = video_url

(***************************************************************************)
(* C8: when the metadata backend raises (at construction, or at every one *)
(* of the retried reads) the metadata fetcher does not raise and gives a  *)
(* record with title "Unknown" and source_url equal to the input URL.     *)
(***************************************************************************)
C8_FetcherOnRaisingBackend ==
    backend_raised
       => /\ pc # "raised"
          /\ metadata # None
          /\ "title" \in DOMAIN metadata
          /\ metadata.title = Unknown
          /\ "source_url" \in DOMAIN metadata
          /\ metadata.source_url = video_url
          /\ \A k \in DOMAIN calls : calls[k].fn = "get_video_metadata" => ~calls[k].out.raised

\* pytube raised at each of the three reads
C8_Witness ==
    /\ backend_raised
    /\ impl = "pytube"
    /\ pc = "resolve"
    /\ metadata = [title |-> Unknown, source_url |-> video_url]

(***************************************************************************)
(* C9: every temporary audio file of an audio download is gone when the   *)
(* strategy that created it returns, on every exit path.  Refuted: a      *)
(* download that fails part-way leaves what it wrote, and nothing removes *)
(* it.                                                                     *)
(***************************************************************************)
C9_NoAudioFileLeft == files = {}

(***************************************************************************)
(* C10: the four strategy functions and the id resolver are total: on     *)
(* every failure of a lower-level call they return text or None and no    *)
(* exception leaves them.                                                  *)
(***************************************************************************)
C10_ComponentsTotal ==
    /\ \A k \in DOMAIN calls :
          calls[k].fn \in StrategyNames \cup {"extract_video_id"}
             => /\ ~calls[k].out.raised
                /\ calls[k].out.value = None \/ DOMAIN calls[k].out.value = {"parts", "len"}
    /\ pc = "raised" => StrategyCalls = <<>> /\ ExtractCalls = <<>>

\* each of the four strategies met failures of its lower-level calls and
\* returned None
C10_Witness ==
    /\ pc = "done"
    /\ Len(StrategyCalls) = 4
    /\ \A k \in DOMAIN StrategyCalls : StrategyCalls[k].out.value = None
    /\ failed_to_none

(***************************************************************************)
(* The properties of the component calls.                                  *)
(***************************************************************************)
TranscriptApisCalled == component_call # None /\ component_call.fn = "transcript_api"

LevelOutcome(env, k) == <<env.l1, env.l2, env.l3, env.l4>>[k]

\* what fetching the track of level k gives: the first track of the list is
\* translated when its language code is not 'en'
LevelTrackText(env, k) ==
    JoinSpace(IF k = 4 /\ env.language # "en" THEN Translated(env.entries[4])
              ELSE env.entries[k])

\* the first level whose track is found and fetched, 0 when there is none
FirstLevel(env) ==
    IF \E k \in 1..4 : LevelOutcome(env, k) = "ok"
    THEN Min({k \in 1..4 : LevelOutcome(env, k) = "ok"})
    ELSE 0

C12_AnyErrorAdvances ==
    (TranscriptApisCalled /\ component_call.env.list = "ok")
       => LET env == component_call.env
          IN  /\ (\E k \in {1, 2, 3, 4} : LevelOutcome(env, k) = "ok")
                    => component_call.direct.value # None
              /\ (\E k \in {1, 2, 4} : LevelOutcome(env, k) = "ok")
                    => component_call.proxied.value # None

(***************************************************************************)
(* C13: the proxied strategy behaves as the direct one: for the same      *)
(* tracks and the same failures at the levels both return the same text   *)
(* or both return None.  Refuted: the proxied one goes on after any error *)
(* of its first level and has no en/en-US/en-GB level.                     *)
(***************************************************************************)
C13_ProxiedSameAsDirect ==
    TranscriptApisCalled => component_call.proxied = component_call.direct

YtDlpCalled == component_call # None /\ component_call.fn = "yt_dlp"

\* the place of a language in the preference order en, en-US, en-GB, en-CA, en-AU
LangRank(lang) == CHOOSE k \in DOMAIN SubLangs : SubLangs[k] = lang

(***************************************************************************)
(* C14: in Phase A of the subtitle/download strategy, when several        *)
(* subtitle files exist, the one selected is the one whose language comes *)
(* first in the order en, en-US, en-GB, en-CA, en-AU, whatever the        *)
(* formats.  Refuted: the loops go over the formats first (lines          *)
(* 437-438), an en-AU .vtt file is taken before an en .srt file.           *)
(***************************************************************************)
C14_LanguageBeforeFormat ==
    (YtDlpCalled /\ component_call.subtitle_file # None)
       => \A f \in component_call.env.subfiles :
             LangRank(component_call.subtitle_file.lang) <= LangRank(f.lang)

(***************************************************************************)
(* C15: a parsed subtitle file is returned from Phase A only when it is   *)
(* longer than 100 characters; a shorter or empty parse makes the         *)
(* strategy go on with the audio phase.  Refuted: lines 453-473 return    *)
(* the parse whatever its length.                                          *)
(***************************************************************************)
C15_PhaseALengthGate ==
    (YtDlpCalled /\ component_call.subtitle_file # None /\ component_call.env.read = "ok")
       => LET parsed == ParseCaptions(component_call.subtitle_file.ext,
                                      component_call.env.content)
          IN  component_call.out.value = parsed => parsed.len > 100

(***************************************************************************)
(* C16: after the subtitle phase and the audio phase failed, the          *)
(* subtitle/download strategy returns the "Title: ... Description: ..."   *)
(* composite only when the description is longer than 200 characters,     *)
(* and else the stub.  Refuted: the gate of line 500 is 100 characters.   *)
(***************************************************************************)
C16_DescriptionGate ==
    (/\ YtDlpCalled
     /\ component_call.env.info.kind = "info"
     /\ "description" \in DOMAIN component_call.env.info.info)
       => LET info == component_call.env.info.info
          IN  component_call.out.value = TitleDescription(info.title, info.description)
                 => info.description.len > 200

(***************************************************************************)
(* C17, as the code has it: when the video-extraction backend raises at   *)
(* the metadata step of the subtitle/download strategy and the video id   *)
(* can be resolved from the URL, the strategy goes on with the default    *)
(* record (title "Unknown", author "Unknown") through the subtitle, audio *)
(* and fallback phases and returns a text: the audio transcript when it   *)
(* is longer than 100 characters, else the stub of the default record.    *)
(* When the id cannot be resolved from the URL it returns None.            *)
(***************************************************************************)
C17_BackendDownWithId ==
    (YtDlpCalled /\ component_call.env.info.kind = "raise")
       => LET env == component_call.env
              out == component_call.out
          IN  /\ ~out.raised
              /\ IF Truthy(extract_video_id(video_url, env.idb).value)
                 THEN /\ out.value # None
                      /\ \/ out.value = UnableToExtract(Unknown, Unknown)
                         \/ /\ env.dl = "ok"
                            /\ out.value = env.tr.text
                            /\ out.value.len > 100
                 ELSE out.value = None

\* the backend raised, the id is in the URL, the download failed: the stub
C17_Witness ==
    /\ YtDlpCalled
    /\ component_call.env.info.kind = "raise"
    /\ Truthy(extract_video_id(video_url, component_call.env.idb).value)
    /\ component_call.env.dl = "raise"
    /\ component_call.out.value = UnableToExtract(Unknown, Unknown)

\* C17 as stated: a text is returned whenever the backend raised
C17_BackendDownAlwaysText ==
    (YtDlpCalled /\ component_call.env.info.kind = "raise")
       => component_call.out.value # None

\* a call of the mirror strategy has returned
InvidiousCalled == pc = "returned" /\ component_call.fn = "invidious"

\* the call returned the text of the captions endpoint of the pair of log[i]
StepOneAccepted(log, i) ==
    /\ component_call.out.value # None
    /\ log[Len(log)].pair = log[i].pair
    /\ \A j \in DOMAIN log : ~(log[j].ev = "videos" /\ log[j].pair = log[i].pair)

(***************************************************************************)
(* C18: in the mirror strategy, every pair whose captions-endpoint step   *)
(* gave no accepted text (the request raised, answered non-200, answered  *)
(* a malformed or empty payload, or every caption was too short) has its  *)
(* video-details endpoint queried before the next pair is tried.          *)
(* Refuted: a raising captions request leaves the pair (lines 550, 722).  *)
(***************************************************************************)
C18_VideoDetailsQueried ==
    InvidiousCalled
       => LET log == component_call.log
          IN  \A i \in DOMAIN log :
                 (log[i].ev = "captions" /\ ~StepOneAccepted(log, i))
                    => \E j \in DOMAIN log :
                          /\ j > i
                          /\ log[j].ev = "videos"
                          /\ log[j].pair = log[i].pair
                          /\ \A m \in DOMAIN log : log[m].pair > log[i].pair => j < m

(***************************************************************************)
(* C19: in the mirror strategy a caption URL is requested at most 3 times *)
(* in a step of a pair; a request after the first one directly follows a  *)
(* failed one (non-200 or raised) and the delay between them, never a 200 *)
(* answer; the retry delay stands only between two attempts, never after  *)
(* the third.                                                              *)
(***************************************************************************)
C19_CaptionUrlRetries ==
    InvidiousCalled
       => LET log == component_call.log
          IN  \A i \in DOMAIN log :
                 /\ log[i].ev = "caption_url"
                       => /\ log[i].attempt \in 1..3
                          /\ log[i].attempt > 1
                                => /\ i > 2
                                   /\ log[i - 1].ev = "sleep" /\ log[i - 1].answer = "retry"
                                   /\ log[i - 2].ev = "caption_url"
                                   /\ log[i - 2].attempt = log[i].attempt - 1
                                   /\ log[i - 2].answer \in {"non200", "raise"}
                                   /\ log[i - 2].pair = log[i].pair
                          /\ (log[i].answer = "ok" /\ i < Len(log))
                                => /\ ~(log[i + 1].ev = "sleep" /\ log[i + 1].answer = "retry")
                                   /\ ~(log[i + 1].ev = "caption_url" /\ log[i + 1].attempt > 1)
                 /\ (log[i].ev = "sleep" /\ log[i].answer = "retry")
                       => /\ i > 1 /\ i < Len(log)
                          /\ log[i - 1].ev = "caption_url"
                          /\ log[i - 1].answer # "ok"
                          /\ log[i - 1].attempt < 3
                          /\ log[i + 1].ev = "caption_url"
                          /\ log[i + 1].attempt = log[i - 1].attempt + 1

\* three failed requests to one URL with a delay after the first and the
\* second: the call returns right after the third
C19_Witness ==
    /\ InvidiousCalled
    /\ Len(component_call.log) > 4
    /\ LET log == component_call.log
           i == Len(component_call.log)
       IN  /\ log[i].ev = "caption_url" /\ log[i].attempt = 3 /\ log[i].answer = "raise"
           /\ log[i - 1].ev = "sleep"
           /\ log[i - 2].ev = "caption_url" /\ log[i - 2].answer = "non200"
           /\ log[i - 3].ev = "sleep"
           /\ log[i - 4].ev = "caption_url" /\ log[i - 4].attempt = 1

\* the caption descriptors a pair may be answered
PairItems(e) == {e.cap.data[i] : i \in DOMAIN e.cap.data} \cup
                {e.vid.captions[i] : i \in DOMAIN e.vid.captions}

(***************************************************************************)
(* C20: the mirror strategy returns None exactly when every pair was      *)
(* tried without a qualifying result, and a value other than None is the  *)
(* parse of a caption, longer than 100 characters, or the composite of    *)
(* title and description with a description longer than 200 characters.   *)
(***************************************************************************)
C20_MirrorReturns ==
    InvidiousCalled
       => LET out == component_call.out
              envs == component_call.env
              log == component_call.log
          IN  /\ ~out.raised
              /\ out.value = None
                    <=> /\ \A k \in 1..NumPairs :
                              \E i \in DOMAIN log : log[i].ev = "captions" /\ log[i].pair = k
                        /\ log[Len(log)].ev = "sleep"
                        /\ log[Len(log)].pair = NumPairs
              /\ out.value # None
                    => \E k \in DOMAIN envs :
                          \/ /\ out.value.len > 100
                             /\ \E item \in PairItems(envs[k]) :
                                   out.value = ParseCaptions(item.fmt, item.content)
                          \/ /\ "description" \in DOMAIN envs[k].vid
                             /\ envs[k].vid.description.len > 200
                             /\ out.value = TitleDescription(Get(envs[k].vid, "title", Unknown),
                                                             envs[k].vid.description)

\* the last pair's video details carry no usable caption and a description of
\* 201 characters: the composite
C20_Witness ==
    /\ InvidiousCalled
    /\ "description" \in DOMAIN component_call.env[NumPairs].vid
    /\ component_call.env[NumPairs].vid.description.len = 201
    /\ component_call.out.value =
          TitleDescription(TitleA, component_call.env[NumPairs].vid.description)

\* a description composite or a stub: the text starts with "Title:"
IsFallbackText(t) == Truthy(t) /\ t.parts[1] = Lit("Title:", 6)

(***************************************************************************)
(* C21: process_youtube_url never returns a title+description composite   *)
(* or an "Unable to extract content" stub when a strategy invoked in the  *)
(* same call returned a non-empty caption or transcript text.  Refuted:   *)
(* the partial-content chain of lines 882-893 takes the output of the     *)
(* subtitle/download strategy, its composite or stub included, before the *)
(* mirror's captions.                                                      *)
(***************************************************************************)
C21_CaptionsBeforeFallbacks ==
    (impl = "ytdlp" /\ pc = "done" /\ IsFallbackText(result.text))
       => \A k \in DOMAIN StrategyCalls :
             LET t == StrategyCalls[k].out.value
             IN  Truthy(t) => IsFallbackText(t)

(***************************************************************************)
(* C22: when two requests run the mirror strategy concurrently on the     *)
(* same service object, a request that finds no qualifying result has    *)
(* attempted every configured instance exactly once.  Refuted: a shuffle  *)
(* by the other request between two steps of the list iterator moves an   *)
(* instance already taken to a position not yet reached.                   *)
(***************************************************************************)
C22_EveryInstanceOnce ==
    \A r \in DOMAIN requests :
       requests[r].pc = "returned"
          => \A n \in 1..NumInstances :
                Cardinality({k \in DOMAIN requests[r].instances :
                                requests[r].instances[k] = n}) = 1

\* a call of extract_video_id has returned
ExtractVideoIdCalled == pc = "returned" /\ component_call.fn = "extract_video_id"

(***************************************************************************)
(* C23: for a URL of one of the supported shapes (youtu.be/<id>,          *)
(* youtube.com/watch?v=<id>, youtube.com/embed/<id>, youtube.com/v/<id>)  *)
(* whose id is followed by nothing or by parameters behind "&" or "?",    *)
(* extract_video_id returns exactly the id.  Refuted: the watch branch of *)
(* youtube_service_fixed.py cuts the segment at "&" only (line 757).      *)
(***************************************************************************)
C23_IdOfSupportedShapes ==
    (ExtractVideoIdCalled /\ component_call.id # None)
       => /\ component_call.fixed = Ret(component_call.id)
          /\ component_call.copy = Ret(component_call.id)

(***************************************************************************)
(* C24: extract_video_id returns None only if the URL patterns gave no id *)
(* and the backend fallback failed as well: when the backend would give   *)
(* an id, None is never returned.  Refuted: in the pytube version a URL   *)
(* matching the fourth pattern, which has no group, ends in the outer     *)
(* handler and None is returned without the fallback (lines 256-258).     *)
(***************************************************************************)
C24_NoneOnlyAfterFallback ==
    (/\ ExtractVideoIdCalled
     /\ component_call.backend.kind = "info"
     /\ "id" \in DOMAIN component_call.backend.info)
       => /\ component_call.fixed.value # None
          /\ component_call.copy.value # None

\* a call of the caption rules has returned
ParsersCalled == pc = "returned" /\ component_call.fn = "parse"

\* the lines of a WebVTT sample that are text: neither the header, nor a cue
\* timing, nor blank
VttTextLines(content) ==
    SelectSeq(content, LAMBDA l : l \notin {<<WebVttHeader>>, <<>>, CueLine})

\* a WebVTT sample: a header line, then cue timings, blank lines and text lines
\* without surrounding blanks
IsVttSample(content) ==
    /\ content # <<>>
    /\ content[1] = <<WebVttHeader>>
    /\ \A k \in DOMAIN content :
          content[k] \in {<<WebVttHeader>>, <<>>, CueLine, <<Lit("hello", 5)>>,
                          <<Lit("a", 1), Lit("\\t", 1), SP, Lit("b", 1)>>,
                          <<Lit("12:30", 5), SP, Lit("meet", 4)>>}

(***************************************************************************)
(* C25: the WebVTT rule, on a header line, cue timings, blank lines and N *)
(* text lines, returns the N text lines in their order joined by single   *)
(* spaces, also when a text line starts with two digits, a colon and two  *)
(* digits.  Refuted: such a text line matches r'^\d{2}:\d{2}' and is      *)
(* dropped (lines 459, 593, 673).                                          *)
(***************************************************************************)
C25_VttKeepsTextLines ==
    (ParsersCalled /\ component_call.fmt = "vtt" /\ IsVttSample(component_call.content))
       => component_call.subtitle_file =
             JoinSpace(RawLines(VttTextLines(component_call.content)))

(***************************************************************************)
(* C26: for each rule (WebVTT, SRT, generic) and every content, the rule  *)
(* applied to its own flat output returns that output unchanged.          *)
(***************************************************************************)
C26_ParseIdempotent ==
    ParsersCalled => component_call.reparsed = component_call.subtitle_file

\* a sample with header, cue number, timing and padded text, which the rule
\* changes, and whose output it leaves alone
C26_Witness ==
    /\ ParsersCalled
    /\ component_call.fmt = "srt"
    /\ component_call.content = << <<Lit("1", 1)>>, CueLine, <<SP, Lit("world", 5), SP>> >>
    /\ component_call.subtitle_file = Str(<<Lit("world", 5)>>)
    /\ component_call.reparsed = Str(<<Lit("world", 5)>>)

(***************************************************************************)
(* C29: for the same content and the same detected format, the rules of   *)
(* the subtitle/download strategy, of the mirror's captions step and of   *)
(* the mirror's video-details step give the same flat text.               *)
(***************************************************************************)
C29_SameRulesAtThreePlaces ==
    ParsersCalled
       => /\ component_call.captions = component_call.subtitle_file
          /\ component_call.details = component_call.subtitle_file

\* an SRT sample whose cue number all three places leave out
C29_Witness ==
    /\ ParsersCalled
    /\ component_call.fmt = "srt"
    /\ component_call.content = << <<Lit("1", 1)>>, CueLine, <<Lit("hello", 5)>> >>
    /\ component_call.details = Str(<<Lit("hello", 5)>>)
    /\ component_call.captions = Str(<<Lit("hello", 5)>>)

(***************************************************************************)
(* C27: a text the subtitle/download strategy returns from its subtitle   *)
(* phase is the parse of the content of a subtitle file, never track      *)
(* descriptors or other unparsed data of the backend.  Refuted: STEP 2    *)
(* returns the formatted value of info['subtitles'][lang] (line 481).     *)
(***************************************************************************)
C27_SubtitlePhaseReturnsParse ==
    (/\ YtDlpCalled
     /\ component_call.steps # <<>>
     /\ component_call.steps[1] \in {"subtitle_file", "info_subtitles"}
     /\ component_call.out.value # None)
       => /\ component_call.subtitle_file # None
          /\ component_call.out.value =
                ParseCaptions(component_call.subtitle_file.ext, component_call.env.content)

\* the audio phase is bound to fail: no file, no text, or a text of at most
\* 100 characters
AudioFailed(env) ==
    \/ env.dl # "ok"
    \/ env.tr.whisper \in {"notext", "RuntimeError"}
    \/ env.tr.whisper = "ImportError" /\ env.tr.openai # "text"
    \/ env.tr.text.len <= 100

(***************************************************************************)
(* C28: in the subtitle/download strategy the audio download is started   *)
(* only when the subtitle phase gave no result (no subtitle file, no      *)
(* English track in the info), and the description composite or the stub  *)
(* is produced only after the audio phase ran and failed: no file         *)
(* downloaded, no text from the transcription, or a text of at most 100   *)
(* characters.                                                             *)
(***************************************************************************)
C28_PhasesInOrder ==
    YtDlpCalled
       => LET env == component_call.env
              steps == component_call.steps
              audio == {k \in DOMAIN steps : steps[k] = "download_audio"}
              fallback == {k \in DOMAIN steps : steps[k] \in {"description", "stub"}}
          IN  /\ audio # {}
                    => /\ audio = {1}
                       /\ env.subfiles = {}
                       /\ (env.info.kind = "info" /\ "subtitles" \in DOMAIN env.info.info)
                             => env.info.info.subtitles
                                   \cap {"en", "en-US", "en-GB", "en-CA", "en-AU"} = {}
              /\ IsFallbackText(component_call.out.value) <=> fallback # {}
              /\ fallback # {}
                    => /\ audio # {}
                       /\ \A k \in fallback : k = Len(steps) /\ k > 1
                       /\ AudioFailed(env)
                       /\ ("transcribe_audio" \in {steps[k] : k \in DOMAIN steps})
                             <=> env.dl = "ok"

\* the audio was downloaded and transcribed to 100 characters: the stub
C28_Witness ==
    /\ YtDlpCalled
    /\ component_call.steps = <<"download_audio", "transcribe_audio", "stub">>
    /\ component_call.env.dl = "ok"
    /\ component_call.env.tr.whisper = "text"
    /\ component_call.env.tr.text.len = 100

(***************************************************************************)
(* C30: the metadata record built at the start of process_youtube_url is  *)
(* the one every return hands back: after the fetch step no step, and so  *)
(* no strategy invocation, adds, removes or changes a field of it, and    *)
(* each return carries it as it is.                                        *)
(***************************************************************************)
C30_MetadataUnmodified ==
    [][/\ (impl = "ytdlp" /\ pc # "start") => metadata' = metadata
       /\ (impl = "ytdlp" /\ pc # "done" /\ pc' = "done") => result'.metadata = metadata]_vars

\* all four strategies ran, the third one with a title of its own, and the
\* record fetched at the start is returned
C30_Witness ==
    /\ impl = "ytdlp"
    /\ pc = "done"
    /\ Len(calls) >= 4
    /\ Truthy(full_transcript)
    /\ metadata # None
    /\ Truthy(Get(metadata, "video_id", None))
    /\ result.metadata = metadata

(***************************************************************************)
(* C31: in the yt-dlp/transcript-API version the text of the returned     *)
(* pair is None exactly when no video id was resolved; with an id the     *)
(* text is a non-empty string: an accepted transcript, a partial          *)
(* candidate or the stub.                                                  *)
(***************************************************************************)
C31_TextNoneIffNoId ==
    (impl = "ytdlp" /\ pc = "done")
       => /\ result.text = None <=> ~Truthy(video_id)
          /\ Truthy(video_id)
                => /\ Truthy(result.text)
                   /\ result.text.len > 0
                   /\ \/ AcceptedAsFinal(result.text)
                      \/ result.text \in {transcript_from_api, proxy_transcript,
                                          full_transcript, enhanced_invidious_transcript}
                      \/ result.text = FallbackText(metadata)

\* an id was resolved, the four strategies gave nothing: the stub is returned
C31_Witness ==
    /\ impl = "ytdlp"
    /\ pc = "done"
    /\ Truthy(video_id)
    /\ Len(calls) >= 4
    /\ ~Truthy(transcript_from_api)
    /\ ~Truthy(proxy_transcript)
    /\ ~Truthy(full_transcript)
    /\ ~Truthy(enhanced_invidious_transcript)
    /\ result.text = FallbackText(metadata)

\* no id in the metadata and none in the URL: the text is None
C31_WitnessNoId ==
    /\ impl = "ytdlp"
    /\ pc = "done"
    /\ ~Truthy(video_id)
    /\ result.text = None

(***************************************************************************)
(* C32: in a single-threaded run, an invocation of the mirror strategy    *)
(* that finds no qualifying result attempts every (instance, identity)    *)
(* pair of the configured lists exactly once, and after any sequence of   *)
(* invocations the instance list and the identity list are permutations   *)
(* of their initial contents.                                              *)
(***************************************************************************)
C32_EveryPairOnce ==
    /\ \A r \in DOMAIN requests :
          (requests[r].pc = "returned" /\ requests[r].alone)
             => /\ Len(requests[r].pairs) = NumInstances * NumUserAgents
                /\ \A n \in 1..NumInstances, u \in 1..NumUserAgents :
                      Cardinality({k \in DOMAIN requests[r].pairs :
                                      requests[r].pairs[k] = <<n, u>>}) = 1
    /\ \A n \in 1..NumInstances :
          Cardinality({k \in DOMAIN invidious_instances : invidious_instances[k] = n}) = 1
    /\ \A u \in 1..NumUserAgents :
          Cardinality({k \in DOMAIN user_agents : user_agents[k] = u}) = 1
    /\ Len(invidious_instances) = NumInstances
    /\ Len(user_agents) = NumUserAgents

\* two invocations, one after the other, both returned; the lists were
\* shuffled out of their initial order
C32_Witness ==
    /\ \A r \in DOMAIN requests : requests[r].pc = "returned" /\ requests[r].alone
    /\ invidious_instances # [i \in 1..NumInstances |-> i]
    /\ user_agents # [i \in 1..NumUserAgents |-> i]

\* the requests of caption URLs the k-th pair made in its STEP 1: those before
\* its query of the videos endpoint
StepOneUrls(log, k) ==
    {i \in DOMAIN log :
        /\ log[i].pair = k
        /\ log[i].ev = "caption_url"
        /\ \A j \in 1..i : ~(log[j].pair = k /\ log[j].ev = "videos")}

\* those of its STEP 2
StepTwoUrls(log, k) ==
    {i \in DOMAIN log :
        /\ log[i].pair = k
        /\ log[i].ev = "caption_url"
        /\ \E j \in 1..i : log[j].pair = k /\ log[j].ev = "videos"}

HasEnglish(data) == \E n \in DOMAIN data : IsEnglish(data[n])

(***************************************************************************)
(* C34: in the mirror strategy, when a response holds a caption           *)
(* descriptor whose languageCode starts with "en", only such descriptors  *)
(* are requested for that response, at the captions endpoint as in the    *)
(* video details.  Refuted: at the captions endpoint an English           *)
(* descriptor counts only if it has a label (line 563), so a response     *)
(* whose English descriptors lack one has all its descriptors requested.  *)
(***************************************************************************)
C34_EnglishPreferred ==
    InvidiousCalled
       => \A k \in DOMAIN component_call.env :
             LET log == component_call.log
                 env == component_call.env[k]
             IN  /\ HasEnglish(env.cap.data)
                       => \A i \in StepOneUrls(log, k) :
                             IsEnglish([languageCode |-> log[i].lang])
                 /\ HasEnglish(env.vid.captions)
                       => \A i \in StepTwoUrls(log, k) :
                             IsEnglish([languageCode |-> log[i].lang])

\* the part of C34 that holds: the video-details step
C34_StepTwoEnglishOnly ==
    InvidiousCalled
       => \A k \in DOMAIN component_call.env :
             HasEnglish(component_call.env[k].vid.captions)
                => \A i \in StepTwoUrls(component_call.log, k) :
                      IsEnglish([languageCode |-> component_call.log[i].lang])

\* how far a call of process_youtube_url has got
Rank(p) ==
    CASE p = "start" -> 0
      [] p = "resolve" -> 1
      [] p \in {"method1", "audio"} -> 2
      [] p \in {"method2", "captions"} -> 3
      [] p \in {"method3", "alternative"} -> 4
      [] p = "method4" -> 5
      [] OTHER -> 6

Terminated == pc \in {"done", "raised"}

\* the log of one call of the mirror strategy: the pairs are tried one after
\* the other, none a second time and at most NumPairs of them; a pair queries
\* each endpoint at most once; the requests of a caption URL are numbered
\* 1, 2, 3 in a row
MirrorBounded(log) ==
    /\ \A i \in DOMAIN log : log[i].pair \in 1..NumPairs
    /\ \A i, j \in DOMAIN log : i < j => log[i].pair <= log[j].pair
    /\ \A k \in 1..NumPairs :
          /\ Cardinality({i \in DOMAIN log : log[i].pair = k /\ log[i].ev = "captions"}) <= 1
          /\ Cardinality({i \in DOMAIN log : log[i].pair = k /\ log[i].ev = "videos"}) <= 1
    /\ \A i \in DOMAIN log :
          log[i].ev = "caption_url"
             => /\ log[i].attempt \in 1..3
                /\ log[i].attempt > 1
                      => \E j \in 1..(i - 1) :
                            /\ log[j].ev = "caption_url"
                            /\ log[j].pair = log[i].pair
                            /\ log[j].attempt = log[i].attempt - 1
                            /\ \A m \in (j + 1)..(i - 1) : log[m].ev = "sleep"

(***************************************************************************)
(* C33: process_youtube_url always terminates.  Whatever the backends     *)
(* answer, a call that has not returned or raised can take a step, and    *)
(* every step brings it nearer to its end (Rank grows and is at most 6),  *)
(* so no strategy is entered a second time; the mirror strategy tries at  *)
(* most |instances| x |identities| pairs, a pair makes at most two        *)
(* endpoint queries and at most 3 requests per caption URL.               *)
(***************************************************************************)
C33_AlwaysTerminates ==
    /\ [](~Terminated => ENABLED Next)
    /\ [][/\ Rank(pc') > Rank(pc)
          /\ Rank(pc') <= 6
          /\ impl = "ytdlp"
                => /\ Len(StrategyCalls') <= 4
                   /\ \A k \in DOMAIN StrategyCalls' :
                         /\ StrategyCalls'[k].fn = StrategyOrder[k]
                         /\ k = 4 => MirrorBounded(StrategyCalls'[k].log)]_vars

\* the mirror strategy ran through all its pairs and one caption URL was
\* requested three times; the call returned
C33_Witness ==
    /\ impl = "ytdlp"
    /\ pc = "done"
    /\ Len(StrategyCalls) = 4
    /\ \E i \in DOMAIN StrategyCalls[4].log :
          /\ StrategyCalls[4].log[i].ev = "caption_url"
          /\ StrategyCalls[4].log[i].attempt = 3
    /\ \A k \in 1..NumPairs :
          \E i \in DOMAIN StrategyCalls[4].log : StrategyCalls[4].log[i].pair = k

\* text is what summarize_transcript makes of t, the backend answering or not
Summarized(text, t) ==
    \E sm \in Summarizers : text = summarize_transcript(t, sm, MaxSummaryLength)

C35_WitnessNone ==
    /\ impl = "pytube"
    /\ pc = "done"
    /\ Len(PytubeStrategyCalls) = 3
    /\ ~Truthy(alt_transcript)
    /\ result.text = None

(***************************************************************************)
(* C36: summarize_transcript returns a text of at most max_length         *)
(* characters, whether the text was short enough, the backend summarized  *)
(* it or the backend raised.  Refuted: the fallback returns               *)
(* transcript[:max_length] followed by a notice of 29 characters.         *)
(***************************************************************************)
C36_SummaryWithinMax ==
    (impl = "pytube" /\ pc = "done" /\ Truthy(result.text))
       => result.text.len <= MaxSummaryLength

\* the part of C36 that holds: a text within max_length is returned as it is
C36_ShortUnchanged ==
    (impl = "pytube" /\ pc = "done" /\ Truthy(transcript)
       /\ transcript.len <= MaxSummaryLength)
       => result.text = transcript

(***************************************************************************)
(* C37: get_random_proxy returns None exactly when the configured proxy   *)
(* list is empty and a member of the list otherwise; the proxied strategy *)
(* sends a user-agent header in the None case only and passes the proxy   *)
(* otherwise; a constructed service can have either outcome.  Refuted:    *)
(* load_proxies always returns its two built-in entries, so a constructed *)
(* service never gets None and never sends the user-agent header.         *)
(***************************************************************************)
C37_ProxyOrUserAgent ==
    /\ (pc = "returned" /\ component_call.fn = "transcript_api")
          => /\ component_call.proxy = "None" <=> load_proxies = <<>>
             /\ component_call.proxy # "None"
                   => \E i \in DOMAIN load_proxies : component_call.proxy = load_proxies[i]
             /\ component_call.sent = "headers" <=> component_call.proxy = "None"
             /\ component_call.sent = "proxies" <=> component_call.proxy # "None"
    /\ "None" \in get_random_proxy(load_proxies)
    /\ \E p \in get_random_proxy(load_proxies) : p # "None"

\* the part of C37 that holds: the choice and what is sent with it
C37_ProxyFromList ==
    /\ (pc = "returned" /\ component_call.fn = "transcript_api")
          => /\ component_call.proxy = "None" <=> load_proxies = <<>>
             /\ component_call.proxy # "None"
                   => \E i \in DOMAIN load_proxies : component_call.proxy = load_proxies[i]
             /\ component_call.sent = "headers" <=> component_call.proxy = "None"
    /\ get_random_proxy(<<>>) = {"None"}

====
